---- MODULE Spec2Model ----
(***************************************************************************)
(* Search core of the kissat-optimized SAT solver: watched-literal         *)
(* propagation (proplit.h), the SIMD literal scan (simdscan.c), the binary *)
(* implication index (binindex.c), decisions (decide.c), restarts          *)
(* (restart.c) and clause reduction (reduce.c).                            *)
(*                                                                         *)
(* Literals are the numbers 0 .. 2*VARS-1: variable idx has the literals   *)
(* 2*idx and 2*idx+1.  Indices into the literal array of a clause are the  *)
(* C indices (0-based); lits[i] of the source is written L(lits, i).       *)
(***************************************************************************)
EXTENDS Integers, Sequences, FiniteSets, TLC

VARIABLES
  clauses,      \* arena: reference -> [lits, garbage, searched, base]
  watches,      \* literal -> sequence of watches
  bin_index,    \* literal -> sequence of implied literals, or NULL_INDEX
  binaries,     \* the binary clauses of the formula, in order of arrival
  delayed,      \* solver->delayed: the buffer of delayed watches
  values,       \* literal -> -1, 0, 1
  assigned,     \* variable -> [level, reason]
  trail,        \* sequence of literals
  propagate,    \* number of trail literals already propagated
  level,        \* solver->level
  conflict,     \* result of the last per-literal scan
  ticks,        \* ticks counted by the last per-literal scan
  stable,       \* solver->stable
  heap,         \* variables contained in the scores heap
  scores,       \* variable -> score
  decision_cache,       \* array of DECISION_CACHE_SIZE variables
  decision_cache_size,  \* number of entries filled
  decision_cache_valid, \* solver->decision_cache_valid
  saved,        \* phases.saved: variable -> -1, 0, 1
  target,       \* phases.target: variable -> -1, 0, 1
  switched,     \* statistics.switched
  options,      \* the options the model reads
  cpu_features, \* the flags of simdscan.c the dispatch reads
  cpuid,        \* the vector extensions CPUID reports on the machine
  active,       \* the variables whose flags say active
  randec,       \* solver->randec: what is left of the random sequence
  warming,      \* solver->warming
  decs,         \* literals the driver may assume
  garbage_left, \* number of clauses that may still be marked garbage
  decisions_left, \* number of decisions the driver may still take
  index_op,     \* the last operation on the binary implication index
  scan,         \* arguments and result of the last literal scan call
  links,        \* variable -> [prev, next, stamp] of the decision queue
  queue,        \* [first, last, stamp, search] of the decision queue
  inconsistent, \* solver->inconsistent
  statistics,   \* the counters the model reads
  limits,       \* limits.reduce.conflicts and limits.restart.conflicts
  last,         \* last.reduce_timing
  first_reducible, \* solver->first_reducible
  call          \* arguments and result of the last function call

cdbVars == <<clauses, watches, bin_index, binaries, delayed>>
asgVars == <<values, assigned, trail, propagate, level, conflict>>
heurVars == <<stable, heap, scores, decision_cache, decision_cache_size,
              decision_cache_valid, saved, target, switched>>
envVars == <<cpu_features, cpuid, decs, options, active, randec, warming>>
queueVars == <<links, queue>>
redVars == <<inconsistent, statistics, limits, last, first_reducible>>

vars == <<cdbVars, asgVars, heurVars, envVars, ticks, garbage_left,
          decisions_left, index_op, scan, queueVars, redVars, call>>

----------------------------------------------------------------------------
(* Bounds of the model.                                                    *)

MaxDecisions == 3
MaxGarbage == 1
(* The longest range of literals a scan call is given.                     *)
MaxCount == 33
(* The most binary clauses the formula of the index operations holds.      *)
MaxBinaries == 3
(* The largest score a bump may reach.                                     *)
MaxScore == 2
(* The number of restarts.                                                 *)
MaxRestarts == 2
(* The largest count of mode switches a call is given.                     *)
MaxSwitched == 18
(* The largest restartmargin and the largest glue average a call is given. *)
MaxMargin == 25
MaxGlue == 25
(* The largest stamp the queue may reach.                                  *)
MaxStamp == 12
(* The number of decisions taken in stable mode.                           *)
MaxStableDecisions == 4
(* The number of decisions taken in focused mode.                          *)
MaxFocusedDecisions == 4

----------------------------------------------------------------------------
(* Literals and variables.                                                 *)

NOT(lit) == IF lit % 2 = 0 THEN lit + 1 ELSE lit - 1
IDX(lit) == lit \div 2
LIT(idx) == 2 * idx

L(lits, i) == lits[i + 1]

RECURSIVE Xor(_, _)
Xor(a, b) ==
  IF a = 0 THEN b
  ELSE IF b = 0 THEN a
  ELSE 2 * Xor(a \div 2, b \div 2) + (((a % 2) + (b % 2)) % 2)

(* INVALID_LIT is UINT_MAX in the source: any value that is no literal.    *)
INVALID_LIT == -1

KISSAT_SIMD_THRESHOLD == 8

Min(S) == CHOOSE x \in S : \A y \in S : x <= y
Max(S) == CHOOSE x \in S : \A y \in S : x >= y

Front(s) == SubSeq(s, 1, Len(s) - 1)

----------------------------------------------------------------------------
(* The arithmetic of the C type double (IEEE 754 binary64, round to        *)
(* nearest, ties to even), which restart.c, reduce.c and decide.c compute  *)
(* with.  A natural number of any size is the sequence of its digits in    *)
(* base 2^14, the least significant first and the most significant not 0.  *)
(* A double is [sign, exp, mant]: its value is sign * mant * 2^exp, where  *)
(* mant is a number of exactly 53 bits and sign is 1 or -1; zero is DZero. *)
(* Infinities, NaNs and subnormal numbers do not occur.                    *)

Base == 2 ^ 14

RECURSIVE BTrim(_)
BTrim(a) ==
  IF a = <<>> \/ a[Len(a)] # 0 THEN a ELSE BTrim(SubSeq(a, 1, Len(a) - 1))

RECURSIVE BFromInt(_)
BFromInt(n) == IF n = 0 THEN <<>> ELSE <<n % Base>> \o BFromInt(n \div Base)

RECURSIVE BToInt(_)
BToInt(a) == IF a = <<>> THEN 0 ELSE a[1] + Base * BToInt(Tail(a))

RECURSIVE IntBitLen(_)
IntBitLen(n) == IF n = 0 THEN 0 ELSE 1 + IntBitLen(n \div 2)

BBitLen(a) ==
  IF a = <<>> THEN 0 ELSE 14 * (Len(a) - 1) + IntBitLen(a[Len(a)])

RECURSIVE BCmpAt(_, _, _)
BCmpAt(a, b, i) ==
  IF i = 0 THEN 0
  ELSE IF a[i] < b[i] THEN -1
  ELSE IF a[i] > b[i] THEN 1
  ELSE BCmpAt(a, b, i - 1)

(* -1, 0 or 1 as a is below, equal to or above b.                          *)
BCmp(a, b) ==
  IF Len(a) < Len(b) THEN -1
  ELSE IF Len(a) > Len(b) THEN 1
  ELSE BCmpAt(a, b, Len(a))

BLimb(a, i) == IF i <= Len(a) THEN a[i] ELSE 0

RECURSIVE BAddFrom(_, _, _, _)
BAddFrom(a, b, i, carry) ==
  IF i > Len(a) /\ i > Len(b)
  THEN IF carry = 0 THEN <<>> ELSE <<carry>>
  ELSE LET x == BLimb(a, i) + BLimb(b, i) + carry IN
       <<x % Base>> \o BAddFrom(a, b, i + 1, x \div Base)

BAdd(a, b) == BAddFrom(a, b, 1, 0)

RECURSIVE BSubFrom(_, _, _, _)
BSubFrom(a, b, i, borrow) ==
  IF i > Len(a) THEN <<>>
  ELSE LET x == a[i] - BLimb(b, i) - borrow IN
       IF x < 0 THEN <<x + Base>> \o BSubFrom(a, b, i + 1, 1)
       ELSE <<x>> \o BSubFrom(a, b, i + 1, 0)

(* a - b for a >= b.                                                       *)
BSub(a, b) == BTrim(BSubFrom(a, b, 1, 0))

RECURSIVE BMulSmallFrom(_, _, _, _)
BMulSmallFrom(a, k, i, carry) ==
  IF i > Len(a) THEN IF carry = 0 THEN <<>> ELSE <<carry>>
  ELSE LET x == a[i] * k + carry IN
       <<x % Base>> \o BMulSmallFrom(a, k, i + 1, x \div Base)

(* a * k for k < 2^16.                                                     *)
BMulSmall(a, k) == IF k = 0 THEN <<>> ELSE BMulSmallFrom(a, k, 1, 0)

BShiftLimbs(a, n) == IF a = <<>> THEN <<>> ELSE [i \in 1 .. n |-> 0] \o a

RECURSIVE BMul(_, _)
BMul(a, b) ==
  IF b = <<>> THEN <<>>
  ELSE BAdd(BMulSmall(a, b[1]), BShiftLimbs(BMul(a, Tail(b)), 1))

(* a * 2^k                                                                 *)
BShl(a, k) == BShiftLimbs(BMulSmall(a, 2 ^ (k % 14)), k \div 14)

(* a \div 2^k                                                              *)
BShr(a, k) ==
  LET n == k \div 14
      r == k % 14
  IN BTrim([i \in 1 .. Len(a) - n |->
              (a[i + n] \div (2 ^ r))
                + (BLimb(a, i + n + 1) % (2 ^ r)) * (2 ^ (14 - r))])

(* Bit k of a, the least significant bit being bit 0.                      *)
BBit(a, k) == (BLimb(a, k \div 14 + 1) \div (2 ^ (k % 14))) % 2

(* Some bit of a below bit k is set.                                       *)
BLowBits(a, k) ==
  \/ \E i \in 1 .. k \div 14 : BLimb(a, i) # 0
  \/ BLimb(a, k \div 14 + 1) % (2 ^ (k % 14)) # 0

(* The digit q of a quotient: the largest q with b * q <= r, from the      *)
(* estimate q of it.                                                       *)
RECURSIVE BDigitDown(_, _, _)
BDigitDown(r, b, q) ==
  IF BCmp(BMulSmall(b, q), r) > 0 THEN BDigitDown(r, b, q - 1) ELSE q

RECURSIVE BDigitUp(_, _, _)
BDigitUp(r, b, q) ==
  IF BCmp(BMulSmall(b, q + 1), r) <= 0 THEN BDigitUp(r, b, q + 1) ELSE q

(* The element of a set of one element: The({e(v) : v \in {x}}) is e of   *)
(* the value of x, taken once.                                             *)
The(S) == CHOOSE x \in S : TRUE

BDigit(r, b) ==
  IF BCmp(r, b) < 0 THEN 0
  ELSE
    The({BDigitUp(r, b, BDigitDown(r, b, BToInt(BShr(r, shift))
                                          \div BToInt(BShr(b, shift)))) :
           shift \in {IF BBitLen(b) > 15 THEN BBitLen(b) - 15 ELSE 0}})

(* Long division of a by b # 0 from digit i of a down: [q, r] with         *)
(* a = b * q + r and r < b.                                                *)
RECURSIVE BDivFrom(_, _, _, _)
BDivFrom(a, b, i, st) ==
  IF i = 0 THEN [q |-> BTrim(st.q), r |-> st.r]
  ELSE
    The({The({BDivFrom(a, b, i - 1,
                       The({[q |-> <<d>> \o s.q,
                             r |-> BSub(r, BMulSmall(b, d))] : s \in {st}})) :
                d \in {BDigit(r, b)}}) :
           r \in {BTrim(<<a[i]>> \o st.r)}})

BDivMod(a, b) == BDivFrom(a, b, Len(a), [q |-> <<>>, r |-> <<>>])

DZero == [sign |-> 0, exp |-> 0, mant |-> <<>>]

(* The double nearest to sign * (a + f) * 2^e, where 0 < f < 1 if sticky   *)
(* and f = 0 otherwise; a has more than 54 bits if sticky.                 *)
(* Whether a, cut below bit drop with kept left, rounds up: to nearest,   *)
(* ties to even.                                                           *)
RoundsUp(a, drop, kept, sticky) ==
  /\ BBit(a, drop - 1) = 1
  /\ (sticky \/ BLowBits(a, drop - 1) \/ BBit(kept, 0) = 1)

DRoundKept(sign, e, drop, m) ==
  IF BBitLen(m) > 53
  THEN [sign |-> sign, exp |-> e + drop + 1, mant |-> BShr(m, 1)]
  ELSE [sign |-> sign, exp |-> e + drop, mant |-> m]

DRoundBits(sign, a, e, sticky, n) ==
  IF a = <<>> THEN DZero
  ELSE IF n <= 53
  THEN [sign |-> sign, exp |-> e - (53 - n), mant |-> BShl(a, 53 - n)]
  ELSE The({The({DRoundKept(sign, e, n - 53, m) :
                   m \in {IF RoundsUp(a, n - 53, kept, sticky)
                          THEN BAdd(kept, <<1>>) ELSE kept}}) :
              kept \in {BShr(a, n - 53)}})

DRound(sign, a, e, sticky) ==
  The({The({DRoundBits(sign, bits, e, sticky, n) : n \in {BBitLen(bits)}}) :
         bits \in {a}})

(* The operations on doubles take their operands by value, as the calls   *)
(* of the source do: an operand is evaluated once, where it is bound.      *)

(* (double) n                                                              *)
D(n) ==
  The({IF i = 0 THEN DZero
       ELSE DRound(IF i < 0 THEN -1 ELSE 1,
                   BFromInt(IF i < 0 THEN -i ELSE i), 0, FALSE) : i \in {n}})

DNeg(x) == [x EXCEPT !.sign = -@]

DMul(x, y) ==
  The({IF a.sign = 0 \/ b.sign = 0 THEN DZero
       ELSE DRound(a.sign * b.sign, BMul(a.mant, b.mant),
                   a.exp + b.exp, FALSE) : a \in {x}, b \in {y}})

(* x / y for y # 0                                                         *)
DDiv(x, y) ==
  The({IF a.sign = 0 THEN DZero
       ELSE The({DRound(a.sign * b.sign, d.q, a.exp - b.exp - 56,
                        d.r # <<>>) :
                   d \in {BDivMod(BShl(a.mant, 56), b.mant)}}) :
         a \in {x}, b \in {y}})

(* -1, 0 or 1 as the magnitude of x is below, equal to or above that of y, *)
(* neither being zero.                                                     *)
DCmpAbs(x, y) ==
  IF x.exp < y.exp THEN -1
  ELSE IF x.exp > y.exp THEN 1
  ELSE BCmp(x.mant, y.mant)

(* -1, 0 or 1 as x is below, equal to or above y.                          *)
DCmp(x, y) ==
  The({IF a.sign # b.sign THEN (IF a.sign < b.sign THEN -1 ELSE 1)
       ELSE IF a.sign = 0 THEN 0
       ELSE a.sign * DCmpAbs(a, b) : a \in {x}, b \in {y}})

DLess(x, y) == DCmp(x, y) < 0
DLeq(x, y) == DCmp(x, y) <= 0

(* x + y for x and y not zero and the magnitude of x not below that of y.  *)
(* A number more than 64 binary places below the other only makes the sum  *)
(* inexact.                                                                *)
DAddOrdered(x, y) ==
  The({The({DRound(x.sign,
                   IF x.sign = y.sign THEN BAdd(a, IF far THEN <<1>> ELSE y.mant)
                   ELSE BSub(a, IF far THEN <<1>> ELSE y.mant),
                   IF far THEN x.exp - 64 ELSE y.exp, FALSE) :
              a \in {BShl(x.mant, IF far THEN 64 ELSE x.exp - y.exp)}}) :
         far \in {x.exp - y.exp > 64}})

DAdd(x, y) ==
  The({IF a.sign = 0 THEN b
       ELSE IF b.sign = 0 THEN a
       ELSE The({DAddOrdered(p[1], p[2]) :
                   p \in {IF DCmpAbs(a, b) >= 0 THEN <<a, b>> ELSE <<b, a>>}}) :
         a \in {x}, b \in {y}})

DSub(x, y) == DAdd(x, DNeg(y))

(* (uint64_t) x and (unsigned) x for x >= 0: the fraction is dropped.      *)
DTrunc(x) ==
  The({IF a.sign = 0 THEN 0
       ELSE IF a.exp >= 0 THEN BToInt(BShl(a.mant, a.exp))
       ELSE BToInt(BShr(a.mant, -a.exp)) : a \in {x}})

(* The double next to the fraction n / d, as the compiler reads a decimal  *)
(* constant such as 0.9 = 9 / 10.                                          *)
Dec(n, d) == DDiv(D(n), D(d))

(* The literals of the sources, as the compiler reads them.              *)
Lit_1 == D(1)
Lit_10 == D(10)
Lit_100 == D(100)
Lit_1000 == D(1000)
Lit_2 == D(2)
Lit_3 == D(3)
Lit_5 == D(5)
Lit_0_001 == Dec(1, 1000)
Lit_0_02 == Dec(2, 100)
Lit_0_04 == Dec(4, 100)
Lit_0_1 == Dec(1, 10)
Lit_0_12 == Dec(12, 100)
Lit_0_15 == Dec(15, 100)
Lit_0_18 == Dec(18, 100)
Lit_0_25 == Dec(25, 100)
Lit_0_5 == Dec(5, 10)
Lit_0_7 == Dec(7, 10)
Lit_0_8 == Dec(8, 10)
Lit_0_85 == Dec(85, 100)
Lit_0_9 == Dec(9, 10)
Lit_0_95 == Dec(95, 100)
Lit_0_98 == Dec(98, 100)
Lit_1_03 == Dec(103, 100)
Lit_1_08 == Dec(108, 100)
Lit_1_1 == Dec(11, 10)
Lit_1_15 == Dec(115, 100)
Lit_1_2 == Dec(12, 10)
Lit_1_3 == Dec(13, 10)
Lit_1_4 == Dec(14, 10)
Lit_1_5 == Dec(15, 10)
Lit_1_8 == Dec(18, 10)

(* The mantissas of the values the C library returns for log10 (n),      *)
(* n = 10 .. 73, each of them a double in [1, 2).                          *)
Log10Mantissas ==
  << <<0, 0, 0, 1024>>, <<1390, 323, 6326, 1066>>,
     <<12927, 14222, 1336, 1105>>, <<4687, 3824, 11108, 1140>>,
     <<1183, 10129, 10405, 1173>>, <<5888, 1456, 5201, 1204>>,
     <<14847, 637, 309, 1233>>, <<15767, 5421, 16051, 1259>>,
     <<2430, 15679, 6537, 1285>>, <<272, 6127, 7269, 1309>>,
     <<7808, 4255, 4173, 1332>>, <<7071, 11585, 15606, 1353>>,
     <<9198, 4578, 10499, 1374>>, <<14719, 623, 6706, 1394>>,
     <<4350, 2094, 5510, 1413>>, <<769, 7873, 8037, 1431>>,
     <<12495, 8079, 15281, 1448>>, <<8318, 751, 11739, 1465>>,
     <<8991, 14384, 14578, 1481>>, <<9194, 1453, 8119, 1497>>,
     <<13695, 5711, 9374, 1512>>, <<10214, 4449, 2529, 1527>>,
     <<6271, 4893, 4482, 1541>>, <<15086, 6034, 15700, 1554>>,
     <<7191, 9677, 3840, 1568>>, <<1952, 1618, 2059, 1581>>,
     <<10238, 3550, 10711, 1593>>, <<8320, 921, 13739, 1605>>,
     <<8080, 10382, 11442, 1617>>, <<1998, 9536, 4098, 1629>>,
     <<15616, 8510, 8346, 1640>>, <<3160, 2056, 8039, 1651>>,
     <<14879, 15840, 3395, 1662>>, <<12534, 1776, 11005, 1672>>,
     <<622, 8834, 14672, 1682>>, <<3199, 7168, 14575, 1692>>,
     <<6143, 4879, 10879, 1702>>, <<15006, 15330, 3738, 1712>>,
     <<12158, 6349, 9683, 1721>>, <<3135, 11747, 12464, 1730>>,
     <<8576, 12128, 12210, 1739>>, <<13078, 11133, 9041, 1748>>,
     <<3919, 12335, 3070, 1757>>, <<14916, 11597, 10788, 1765>>,
     <<16126, 5006, 15912, 1773>>, <<9967, 12451, 2152, 1782>>,
     <<415, 2256, 2368, 1790>>, <<13968, 11838, 259, 1798>>,
     <<618, 5709, 12292, 1805>>, <<12526, 11523, 5774, 1813>>,
     <<5119, 9967, 13547, 1820>>, <<7152, 4476, 2912, 1828>>,
     <<1638, 8705, 6702, 1835>>, <<4382, 913, 8597, 1842>>,
     <<14078, 9148, 8655, 1849>>, <<13263, 15952, 6934, 1856>>,
     <<6510, 10290, 3489, 1863>>, <<9518, 6505, 14755, 1869>>,
     <<14999, 13932, 8013, 1876>>, <<12030, 6335, 16080, 1882>>,
     <<9760, 5873, 6232, 1889>>, <<8275, 3084, 11281, 1895>>,
     <<1662, 7806, 14884, 1901>>, <<13412, 1670, 698, 1908>> >>

(* log10 (n) of math.h for n = 10 .. 73.                                   *)
log10(n) == [sign |-> 1, exp |-> -52, mant |-> Log10Mantissas[n - 9]]

(* The values the C library returns for sqrt (count), count = 1 .. 64:     *)
(* the doubles nearest to the square roots.                                *)
Sqrts ==
  << [exp |-> -52, mant |-> <<0, 0, 0, 1024>>],
     [exp |-> -52, mant |-> <<15309, 6652, 2534, 1448>>],
     [exp |-> -52, mant |-> <<3242, 8545, 10158, 1773>>],
     [exp |-> -51, mant |-> <<0, 0, 0, 1024>>],
     [exp |-> -51, mant |-> <<13480, 11871, 14201, 1144>>],
     [exp |-> -51, mant |-> <<8494, 4132, 2273, 1254>>],
     [exp |-> -51, mant |-> <<14570, 10059, 10234, 1354>>],
     [exp |-> -51, mant |-> <<15309, 6652, 2534, 1448>>],
     [exp |-> -51, mant |-> <<0, 0, 0, 1536>>],
     [exp |-> -51, mant |-> <<6995, 11113, 1411, 1619>>],
     [exp |-> -51, mant |-> <<12084, 4085, 1833, 1698>>],
     [exp |-> -51, mant |-> <<3242, 8545, 10158, 1773>>],
     [exp |-> -51, mant |-> <<6643, 4485, 692, 1846>>],
     [exp |-> -51, mant |-> <<16201, 1440, 11937, 1915>>],
     [exp |-> -51, mant |-> <<3802, 1341, 15851, 1982>>],
     [exp |-> -50, mant |-> <<0, 0, 0, 1024>>],
     [exp |-> -50, mant |-> <<11527, 6847, 8438, 1055>>],
     [exp |-> -50, mant |-> <<11481, 13181, 1900, 1086>>],
     [exp |-> -50, mant |-> <<3577, 4497, 14387, 1115>>],
     [exp |-> -50, mant |-> <<13480, 11871, 14201, 1144>>],
     [exp |-> -50, mant |-> <<7813, 9300, 2283, 1173>>],
     [exp |-> -50, mant |-> <<5799, 9553, 12229, 1200>>],
     [exp |-> -50, mant |-> <<1046, 5596, 12007, 1227>>],
     [exp |-> -50, mant |-> <<8494, 4132, 2273, 1254>>],
     [exp |-> -50, mant |-> <<0, 0, 0, 1280>>],
     [exp |-> -50, mant |-> <<12278, 15432, 5717, 1305>>],
     [exp |-> -50, mant |-> <<14720, 14600, 3522, 1330>>],
     [exp |-> -50, mant |-> <<14570, 10059, 10234, 1354>>],
     [exp |-> -50, mant |-> <<6643, 4771, 9866, 1378>>],
     [exp |-> -50, mant |-> <<9615, 2266, 2781, 1402>>],
     [exp |-> -50, mant |-> <<451, 5539, 5696, 1425>>],
     [exp |-> -50, mant |-> <<15309, 6652, 2534, 1448>>],
     [exp |-> -50, mant |-> <<4336, 1419, 9962, 1470>>],
     [exp |-> -50, mant |-> <<9122, 14030, 11856, 1492>>],
     [exp |-> -50, mant |-> <<557, 1615, 8461, 1514>>],
     [exp |-> -50, mant |-> <<0, 0, 0, 1536>>],
     [exp |-> -50, mant |-> <<7225, 3471, 3067, 1557>>],
     [exp |-> -50, mant |-> <<1625, 5084, 1474, 1578>>],
     [exp |-> -50, mant |-> <<5002, 1387, 11788, 1598>>],
     [exp |-> -50, mant |-> <<6995, 11113, 1411, 1619>>],
     [exp |-> -50, mant |-> <<16128, 9855, 3273, 1639>>],
     [exp |-> -50, mant |-> <<4708, 10392, 1140, 1659>>],
     [exp |-> -50, mant |-> <<8544, 10358, 11538, 1678>>],
     [exp |-> -50, mant |-> <<12084, 4085, 1833, 1698>>],
     [exp |-> -50, mant |-> <<12028, 9615, 4918, 1717>>],
     [exp |-> -50, mant |-> <<4131, 12739, 4529, 1736>>],
     [exp |-> -50, mant |-> <<5094, 8406, 779, 1755>>],
     [exp |-> -50, mant |-> <<3242, 8545, 10158, 1773>>],
     [exp |-> -50, mant |-> <<0, 0, 0, 1792>>],
     [exp |-> -50, mant |-> <<2752, 124, 3168, 1810>>],
     [exp |-> -50, mant |-> <<974, 13493, 3369, 1828>>],
     [exp |-> -50, mant |-> <<6643, 4485, 692, 1846>>],
     [exp |-> -50, mant |-> <<15337, 475, 11602, 1863>>],
     [exp |-> -50, mant |-> <<12742, 14390, 3409, 1881>>],
     [exp |-> -50, mant |-> <<8664, 16043, 8958, 1898>>],
     [exp |-> -50, mant |-> <<16201, 1440, 11937, 1915>>],
     [exp |-> -50, mant |-> <<3932, 12635, 12412, 1932>>],
     [exp |-> -50, mant |-> <<1136, 9847, 10451, 1949>>],
     [exp |-> -50, mant |-> <<7899, 5486, 6116, 1966>>],
     [exp |-> -50, mant |-> <<3802, 1341, 15851, 1982>>],
     [exp |-> -50, mant |-> <<13416, 7481, 6945, 1999>>],
     [exp |-> -50, mant |-> <<3858, 11829, 12222, 2015>>],
     [exp |-> -50, mant |-> <<13663, 15089, 15351, 2031>>],
     [exp |-> -49, mant |-> <<0, 0, 0, 1024>>] >>

(* sqrt (count) of math.h for count = 1 .. 64.                             *)
sqrt(count) ==
  [sign |-> 1, exp |-> Sqrts[count].exp, mant |-> Sqrts[count].mant]

----------------------------------------------------------------------------
(* Reasons, conflicts and watches.                                         *)

NoReason == [kind |-> "none", lit |-> 0, ref |-> 0]
DecisionReason == [kind |-> "decision", lit |-> 0, ref |-> 0]
UnitReason == [kind |-> "unit", lit |-> 0, ref |-> 0]
BinaryReason(other) == [kind |-> "binary", lit |-> other, ref |-> 0]
ClauseReason(ref) == [kind |-> "clause", lit |-> 0, ref |-> ref]

NoConflict == [kind |-> "none", a |-> 0, b |-> 0, ref |-> 0]
kissat_binary_conflict(a, b) == [kind |-> "binary", a |-> a, b |-> b, ref |-> 0]
(* A faulty ClauseConflict that reports no conflict: C1 must notice it.    *)
ClauseConflict_Dropped(ref) == NoConflict

ClauseConflict(ref) == [kind |-> "clause", a |-> 0, b |-> 0, ref |-> ref]

kissat_binary_watch(other) == [binary |-> TRUE, lit |-> other, ref |-> 0]
kissat_blocking_watch(blocking, ref) ==
  [binary |-> FALSE, lit |-> blocking, ref |-> ref]

----------------------------------------------------------------------------
(* Search for a non-false literal (simdscan.h, simdscan.c).                *)
(* A result is [found, idx, lit]: the return value, *out_idx and           *)
(* *out_replacement (left as the caller initialised it when not found).    *)
(* env is what the build and the memory layout add to the C arguments:     *)
(*   env.path  the dispatch path: "scalar", "avx2" or "avx512";            *)
(*   env.base  the word address of lits[0] modulo 16;                      *)
(*   env.pad   the three bytes behind the end of the values array;         *)
(*   env.ignore  the clause the probing instance of PROPAGATE_LITERAL is   *)
(*               told to ignore, NULL_CLAUSE otherwise.                    *)

NotFound == [found |-> FALSE, idx |-> 0, lit |-> INVALID_LIT]
Found(lits, i) == [found |-> TRUE, idx |-> i, lit |-> L(lits, i)]

RECURSIVE scalar_find_non_false(_, _, _, _)
scalar_find_non_false(vals, lits, start_idx, end_idx) ==
  IF start_idx >= end_idx THEN NotFound
  ELSE IF vals[L(lits, start_idx)] >= 0 THEN Found(lits, start_idx)
  ELSE scalar_find_non_false(vals, lits, start_idx + 1, end_idx)

(* One byte of the values array as a gather of 32-bit words reads it.      *)
GatherByte(env, vals, at) ==
  IF at \in DOMAIN vals THEN vals[at]
  ELSE env.pad[at - Cardinality(DOMAIN vals) + 1]

(* The 16 bits kept of the byte mask of _mm512_cmpge_epi8_mask: bit 4*d+k  *)
(* compares byte k of the word gathered at values + lits[i+d].             *)
Avx512GeMask(env, vals, lits, i) ==
  {m \in 0 .. 15 :
     GatherByte(env, vals, L(lits, i + (m \div 4)) + (m % 4)) >= 0}

RECURSIVE Avx512Main(_, _, _, _, _)
Avx512Main(env, vals, lits, i, end_idx) ==
  IF i + 16 <= end_idx THEN
    LET ge_mask == Avx512GeMask(env, vals, lits, i) IN
    IF ge_mask # {} THEN Found(lits, i + Min(ge_mask))
    ELSE Avx512Main(env, vals, lits, i + 16, end_idx)
  ELSE scalar_find_non_false(vals, lits, i, end_idx)

RECURSIVE avx512_find_non_false(_, _, _, _, _)
avx512_find_non_false(env, vals, lits, start_idx, end_idx) ==
  IF start_idx < end_idx /\ (env.base + start_idx) % 16 # 0 THEN
    IF vals[L(lits, start_idx)] >= 0 THEN Found(lits, start_idx)
    ELSE avx512_find_non_false(env, vals, lits, start_idx + 1, end_idx)
  ELSE Avx512Main(env, vals, lits, start_idx, end_idx)

(* First position of an 8-literal block whose value byte differs from -1.  *)
Avx2MatchMask(vals, lits, i) == {j \in 0 .. 7 : vals[L(lits, i + j)] # -1}

RECURSIVE Avx2Main(_, _, _, _)
Avx2Main(vals, lits, i, end_idx) ==
  IF i + 8 <= end_idx THEN
    LET match_mask == Avx2MatchMask(vals, lits, i) IN
    IF match_mask # {} THEN Found(lits, i + Min(match_mask))
    ELSE Avx2Main(vals, lits, i + 8, end_idx)
  ELSE scalar_find_non_false(vals, lits, i, end_idx)

avx2_find_non_false(vals, lits, start_idx, end_idx) ==
  IF end_idx - start_idx < 8
  THEN scalar_find_non_false(vals, lits, start_idx, end_idx)
  ELSE Avx2Main(vals, lits, start_idx, end_idx)

RECURSIVE avx2_find_non_false_unrolled(_, _, _, _)
avx2_find_non_false_unrolled(vals, lits, start_idx, end_idx) ==
  IF start_idx + 32 <= end_idx THEN
    LET r == scalar_find_non_false(vals, lits, start_idx, start_idx + 32) IN
    IF r.found THEN r
    ELSE avx2_find_non_false_unrolled(vals, lits, start_idx + 32, end_idx)
  ELSE avx2_find_non_false(vals, lits, start_idx, end_idx)

kissat_simd_find_non_false(env, vals, lits, start_idx, end_idx) ==
  LET count == end_idx - start_idx IN
  IF count < KISSAT_SIMD_THRESHOLD
  THEN scalar_find_non_false(vals, lits, start_idx, end_idx)
  ELSE IF env.path = "avx512"
  THEN avx512_find_non_false(env, vals, lits, start_idx, end_idx)
  ELSE IF env.path = "avx2" THEN
    IF count >= 32
    THEN avx2_find_non_false_unrolled(vals, lits, start_idx, end_idx)
    ELSE avx2_find_non_false(vals, lits, start_idx, end_idx)
  ELSE scalar_find_non_false(vals, lits, start_idx, end_idx)

(* kissat_simd_count_false.  The scalar loop over the positions i .. size-1. *)
RECURSIVE ScalarCountFalse(_, _, _, _)
ScalarCountFalse(vals, lits, i, size) ==
  IF i >= size THEN 0
  ELSE (IF vals[L(lits, i)] < 0 THEN 1 ELSE 0)
       + ScalarCountFalse(vals, lits, i + 1, size)

(* The 16 bits kept of the byte mask of _mm512_movepi8_mask: bit 4*d+k is  *)
(* the sign of byte k of the word gathered at values + lits[i+d].          *)
Avx512NegMask(env, vals, lits, i) ==
  {m \in 0 .. 15 :
     GatherByte(env, vals, L(lits, i + (m \div 4)) + (m % 4)) < 0}

RECURSIVE Avx512CountFalse(_, _, _, _, _)
Avx512CountFalse(env, vals, lits, i, size) ==
  IF i + 16 <= size
  THEN Cardinality(Avx512NegMask(env, vals, lits, i))
       + Avx512CountFalse(env, vals, lits, i + 16, size)
  ELSE ScalarCountFalse(vals, lits, i, size)

(* Byte b of a 256-bit vector of eight gathered words after the and with   *)
(* 0xFF per word: byte 0 of word d is values[lits[i+d]], the others are 0. *)
Avx2LowByte(vals, lits, i, b) ==
  IF b % 4 = 0 THEN vals[L(lits, i + (b \div 4))] ELSE 0

(* The bits 0 .. 7 of _mm256_movemask_epi8 of the bytes below zero.        *)
Avx2NegMask(vals, lits, i) ==
  {b \in 0 .. 7 : 0 > Avx2LowByte(vals, lits, i, b)}

RECURSIVE Avx2CountFalse(_, _, _, _)
Avx2CountFalse(vals, lits, i, size) ==
  IF i + 16 <= size
  THEN Cardinality(Avx2NegMask(vals, lits, i))
       + Cardinality(Avx2NegMask(vals, lits, i + 8))
       + Avx2CountFalse(vals, lits, i + 16, size)
  ELSE IF i + 8 <= size
  THEN Cardinality(Avx2NegMask(vals, lits, i))
       + Avx2CountFalse(vals, lits, i + 8, size)
  ELSE ScalarCountFalse(vals, lits, i, size)

kissat_simd_count_false(env, vals, lits, size) ==
  IF size < KISSAT_SIMD_THRESHOLD
  THEN ScalarCountFalse(vals, lits, 0, size)
  ELSE IF env.path = "avx512"
  THEN Avx512CountFalse(env, vals, lits, 0, size)
  ELSE IF env.path = "avx2" /\ size >= 16
  THEN Avx2CountFalse(vals, lits, 0, size)
  ELSE ScalarCountFalse(vals, lits, 0, size)

(* kissat_simd_all_false.  The scalar loop over the positions i .. size-1. *)
RECURSIVE ScalarAllFalse(_, _, _, _)
ScalarAllFalse(vals, lits, i, size) ==
  IF i >= size THEN TRUE
  ELSE IF vals[L(lits, i)] >= 0 THEN FALSE
  ELSE ScalarAllFalse(vals, lits, i + 1, size)

RECURSIVE Avx512AllFalse(_, _, _, _, _)
Avx512AllFalse(env, vals, lits, i, size) ==
  IF i + 16 <= size THEN
    IF Avx512GeMask(env, vals, lits, i) # {} THEN FALSE
    ELSE Avx512AllFalse(env, vals, lits, i + 16, size)
  ELSE ScalarAllFalse(vals, lits, i, size)

(* The bits 0 .. 7 of _mm256_movemask_epi8 of the bytes above -1.          *)
Avx2GeMask(vals, lits, i) ==
  {b \in 0 .. 7 : Avx2LowByte(vals, lits, i, b) > -1}

RECURSIVE Avx2AllFalse(_, _, _, _)
Avx2AllFalse(vals, lits, i, size) ==
  IF i + 16 <= size THEN
    IF Avx2GeMask(vals, lits, i) # {} \/ Avx2GeMask(vals, lits, i + 8) # {}
    THEN FALSE
    ELSE Avx2AllFalse(vals, lits, i + 16, size)
  ELSE IF i + 8 <= size THEN
    IF Avx2GeMask(vals, lits, i) # {} THEN FALSE
    ELSE Avx2AllFalse(vals, lits, i + 8, size)
  ELSE ScalarAllFalse(vals, lits, i, size)

kissat_simd_all_false(env, vals, lits, size) ==
  IF size >= 16 /\ env.path = "avx512"
  THEN Avx512AllFalse(env, vals, lits, 0, size)
  ELSE IF size >= 16 /\ env.path = "avx2"
  THEN Avx2AllFalse(vals, lits, 0, size)
  ELSE ScalarAllFalse(vals, lits, 0, size)

(* The 2x unrolled loop of the small clause path followed by its odd       *)
(* remaining element: the positions i .. bound-1.                          *)
RECURSIVE UnrolledSearch(_, _, _, _)
UnrolledSearch(vals, lits, i, bound) ==
  IF i + 1 < bound THEN
    IF vals[L(lits, i)] >= 0 THEN Found(lits, i)
    ELSE IF vals[L(lits, i + 1)] >= 0 THEN Found(lits, i + 1)
    ELSE UnrolledSearch(vals, lits, i + 2, bound)
  ELSE IF i < bound /\ vals[L(lits, i)] >= 0 THEN Found(lits, i)
  ELSE NotFound

(* The replacement search of PROPAGATE_LITERAL for clauses of size > 3.    *)
FindReplacement(env, vals, c) ==
  LET size == Len(c.lits)
      start_idx == c.searched IN
  IF size <= 8 THEN
    LET first == UnrolledSearch(vals, c.lits, start_idx, size) IN
    IF first.found THEN first ELSE UnrolledSearch(vals, c.lits, 2, start_idx)
  ELSE
    LET first == kissat_simd_find_non_false(env, vals, c.lits, start_idx,
                                            size) IN
    IF first.found THEN first
    ELSE kissat_simd_find_non_false(env, vals, c.lits, 2, start_idx)

----------------------------------------------------------------------------
(* Assignment (fastassign.h is not part of the sources: the two calls of   *)
(* PROPAGATE_LITERAL are modelled after assign_forced of the design: set   *)
(* the value, record level and reason, push onto the trail).               *)

Assign(s, lvl, lit, reason) ==
  [s EXCEPT !.values = [@ EXCEPT ![lit] = 1, ![NOT(lit)] = -1],
            !.assigned = [@ EXCEPT ![IDX(lit)] =
                            [level |-> lvl, reason |-> reason]],
            !.trail = Append(@, lit)]

(* A faulty kissat_fast_binary_assign that records the forced literal as   *)
(* its own reason: C24 must notice it.                                     *)
kissat_fast_binary_assign_OwnReason(s, lvl, lit, other) ==
  Assign(s, lvl, lit, BinaryReason(lit))

kissat_fast_binary_assign(s, lvl, lit, other) ==
  Assign(s, lvl, lit, BinaryReason(other))

kissat_fast_assign_reference(s, lvl, lit, ref) ==
  Assign(s, lvl, lit, ClauseReason(ref))

----------------------------------------------------------------------------
(* PROPAGATE_LITERAL (proplit.h).  The scan state s holds the cursors p    *)
(* (next watch read) and q (watches written back so far), the solver       *)
(* fields the scan changes, the delayed buffer, the tick count, the        *)
(* result res and brk (the loop was left by break).                        *)

kissat_delay_watching_large(stack, lit, other, ref) ==
  Append(stack, [lit |-> lit, watch |-> kissat_blocking_watch(other, ref)])

(* A faulty ReplaceWatch that rewrites the clause and delays the new watch *)
(* but leaves the old watch in the list of not_lit: C4 must notice it.     *)
ReplaceWatch_KeepWatch(s, ref, not_lit, other, r) ==
  [s EXCEPT !.clauses[ref].searched = r.idx,
            !.clauses[ref].lits =
               [[[@ EXCEPT ![1] = other] EXCEPT ![2] = r.lit]
                   EXCEPT ![r.idx + 1] = not_lit],
            !.delayed = kissat_delay_watching_large(@, r.lit, other, ref),
            !.ticks = @ + 1]

(* A faulty ReplaceWatch that does not store not_lit at the position of    *)
(* the replacement: C28 must notice it.                                    *)
ReplaceWatch_LoseOld(s, ref, not_lit, other, r) ==
  [s EXCEPT !.clauses[ref].searched = r.idx,
            !.clauses[ref].lits = [[@ EXCEPT ![1] = other] EXCEPT ![2] = r.lit],
            !.q = Front(@),
            !.delayed = kissat_delay_watching_large(@, r.lit, other, ref),
            !.ticks = @ + 1]

(* A faulty ReplaceWatch that does not count the tick of the move: C39     *)
(* must notice it.                                                         *)
ReplaceWatch_NoTick(s, ref, not_lit, other, r) ==
  [s EXCEPT !.clauses[ref].searched = r.idx,
            !.clauses[ref].lits =
               [[[@ EXCEPT ![1] = other] EXCEPT ![2] = r.lit]
                   EXCEPT ![r.idx + 1] = not_lit],
            !.q = Front(@),
            !.delayed = kissat_delay_watching_large(@, r.lit, other, ref)]

(* The watch is unwatched in not_lit and the clause rewritten so that      *)
(* lits[0] = other, lits[1] = replacement, lits[r_idx] = not_lit.          *)
ReplaceWatch(s, ref, not_lit, other, r) ==
  [s EXCEPT !.clauses[ref].searched = r.idx,
            !.clauses[ref].lits =
               [[[@ EXCEPT ![1] = other] EXCEPT ![2] = r.lit]
                   EXCEPT ![r.idx + 1] = not_lit],
            !.q = Front(@),
            !.delayed = kissat_delay_watching_large(@, r.lit, other, ref),
            !.ticks = @ + 1]

(* A faulty DropGarbageWatch that leaves the watch of a garbage clause in   *)
(* the list: C25 must notice it.                                           *)
DropGarbageWatch_Keep(s) == s

(* q -= 2 for a garbage clause: the watch just copied is dropped.          *)
DropGarbageWatch(s) == [s EXCEPT !.q = Front(@)]

(* The body of the while loop for a large watch whose blocking literal     *)
(* is not true; s has the watch already copied to q.  A clause that is     *)
(* conflicting or forcing is passed over when it is the ignored one.       *)
VisitLarge(env, lvl, not_lit, head, s) ==
  LET ref == head.ref
      c == s.clauses[ref]
      lits == c.lits
      s1 == [s EXCEPT !.ticks = @ + 1]
      other == Xor(Xor(L(lits, 0), L(lits, 1)), not_lit)
      other_value == s.values[other]
      size == Len(lits)
  IN
  IF c.garbage THEN DropGarbageWatch(s1)
  ELSE IF other_value > 0
  THEN [s1 EXCEPT !.q = Append(Front(@), kissat_blocking_watch(other, ref))]
  ELSE IF size = 3 THEN
    IF s.values[L(lits, 2)] >= 0
    THEN ReplaceWatch(s1, ref, not_lit, other, Found(lits, 2))
    ELSE IF other_value # 0
    THEN (IF ref = env.ignore THEN s1
          ELSE [s1 EXCEPT !.res = ClauseConflict(ref), !.brk = TRUE])
    ELSE IF ref = env.ignore THEN s1
    ELSE [kissat_fast_assign_reference(s1, lvl, other, ref)
            EXCEPT !.ticks = @ + 1]
  ELSE
    LET r == FindReplacement([env EXCEPT !.base = c.base], s.values, c)
        replacement_value == IF r.found THEN s.values[r.lit] ELSE -1
    IN
    IF replacement_value >= 0
    THEN ReplaceWatch(s1, ref, not_lit, other, r)
    ELSE IF other_value # 0
    THEN (IF ref = env.ignore THEN s1
          ELSE [s1 EXCEPT !.res = ClauseConflict(ref), !.brk = TRUE])
    ELSE IF ref = env.ignore THEN s1
    ELSE [kissat_fast_assign_reference(s1, lvl, other, ref)
            EXCEPT !.ticks = @ + 1]

(* A faulty VisitWatch that copies every large watch without looking at    *)
(* its clause: C2 must notice it.                                          *)
VisitWatch_SkipLarge(env, blevel, lvl, not_lit, head, s) ==
  LET blocking == head.lit
      blocking_value == s.values[blocking]
      s0 == [s EXCEPT !.p = @ + 1, !.q = Append(@, head)]
  IN
  IF head.binary THEN
    IF blocking_value > 0 THEN s0
    ELSE IF blocking_value < 0
    THEN [s0 EXCEPT !.res = kissat_binary_conflict(not_lit, blocking),
                    !.brk = TRUE]
    ELSE [kissat_fast_binary_assign(s0, blevel, blocking, not_lit)
            EXCEPT !.ticks = @ + 1]
  ELSE s0

(* One iteration of the while loop.  blevel is the level of the            *)
(* propagated literal (a->level), lvl the level large clauses force at.    *)
VisitWatch(env, blevel, lvl, not_lit, head, s) ==
  LET blocking == head.lit
      blocking_value == s.values[blocking]
      s0 == [s EXCEPT !.p = @ + 1, !.q = Append(@, head)]
  IN
  IF head.binary THEN
    IF blocking_value > 0 THEN s0
    ELSE IF blocking_value < 0
    THEN [s0 EXCEPT !.res = kissat_binary_conflict(not_lit, blocking),
                    !.brk = TRUE]
    ELSE [kissat_fast_binary_assign(s0, blevel, blocking, not_lit)
            EXCEPT !.ticks = @ + 1]
  ELSE
    IF blocking_value > 0 THEN s0
    ELSE VisitLarge(env, lvl, not_lit, head, s0)

RECURSIVE ScanWatches(_, _, _, _, _, _)
ScanWatches(env, blevel, lvl, not_lit, ws, s) ==
  IF s.p > Len(ws) \/ s.brk THEN s
  ELSE ScanWatches(env, blevel, lvl, not_lit, ws,
                   VisitWatch(env, blevel, lvl, not_lit, ws[s.p], s))

(* kissat_watch_large_delayed: the buffer is drained into the watch lists. *)
RECURSIVE kissat_watch_large_delayed(_, _)
kissat_watch_large_delayed(all_watches, stack) ==
  IF stack = <<>> THEN all_watches
  ELSE LET d == Head(stack) IN
       kissat_watch_large_delayed(
         [all_watches EXCEPT ![d.lit] = Append(@, d.watch)], Tail(stack))

(* A faulty CLEAR_STACK that leaves the entries in the buffer: C26 must    *)
(* notice it.                                                              *)
CLEAR_STACK_Keep(stack) == stack

(* CLEAR_STACK at the end of kissat_watch_large_delayed.                   *)
CLEAR_STACK(stack) == <<>>

(* Words of a watch list: one per binary watch, two per large watch.       *)
RECURSIVE SIZE_WATCHES(_)
SIZE_WATCHES(ws) ==
  IF ws = <<>> THEN 0
  ELSE (IF Head(ws).binary THEN 1 ELSE 2) + SIZE_WATCHES(Tail(ws))

(* kissat_cache_lines (inline.h is not part of the sources): the number    *)
(* of 128-byte lines n words of 4 bytes span.                              *)
kissat_cache_lines(n) == (n * 4 + 127) \div 128

(* A faulty copy that forgets the watches behind the one the scan stopped  *)
(* at: C27 must notice it.                                                 *)
CopyRemaining_Forget(q, ws, p) == q

(* while (p != end_watches) *q++ = *p++: the watches the scan did not      *)
(* visit follow those it kept.                                             *)
CopyRemaining(q, ws, p) == q \o SubSeq(ws, p, Len(ws))

(* The whole function: the scan, the copy of the watches not visited, and  *)
(* the drain of the delayed buffer.  Its result is the scan state with     *)
(* the new watch lists in watches.                                         *)
PROPAGATE_LITERAL(env, all_watches, lit) ==
  LET not_lit == NOT(lit)
      ws == all_watches[not_lit]
      blevel == assigned[IDX(lit)].level
      s0 == [p |-> 1, q |-> <<>>, values |-> values, assigned |-> assigned,
             trail |-> trail, clauses |-> clauses, delayed |-> delayed,
             ticks |-> 1 + kissat_cache_lines(SIZE_WATCHES(ws)),
             res |-> NoConflict, brk |-> FALSE]
  IN CHOOSE r \in
       {[values |-> s.values, assigned |-> s.assigned, trail |-> s.trail,
         clauses |-> s.clauses, ticks |-> s.ticks, res |-> s.res,
         watches |-> kissat_watch_large_delayed(
                       [all_watches EXCEPT ![not_lit] =
                          CopyRemaining(s.q, ws, s.p)], s.delayed),
         delayed |-> CLEAR_STACK(s.delayed), moved |-> s.delayed] :
          s \in {ScanWatches(env, blevel, level, not_lit, ws, s0)}} : TRUE

----------------------------------------------------------------------------
(* The binary implication index (binindex.c).                              *)

(* count_binary_clauses and populate_bin_index for one literal: the        *)
(* blocking literals of the binary watches, in the order of the list.      *)
RECURSIVE populate_bin_index(_)
populate_bin_index(ws) ==
  IF ws = <<>> THEN <<>>
  ELSE IF Head(ws).binary
  THEN <<Head(ws).lit>> \o populate_bin_index(Tail(ws))
  ELSE populate_bin_index(Tail(ws))

kissat_rebuild_bin_index(all_watches) ==
  [lit \in DOMAIN all_watches |-> populate_bin_index(all_watches[lit])]

(* solver->bin_index before kissat_init_bin_index: the null pointer.       *)
NULL_INDEX == [lit \in {} |-> <<>>]

(* kissat_bin_impl_add: nothing without an index, nothing when b is        *)
(* already an entry of the list of a, else b is appended.                  *)
kissat_bin_impl_add(index, a, b) ==
  IF index = NULL_INDEX THEN index
  ELSE IF \E i \in DOMAIN index[a] : index[a][i] = b THEN index
  ELSE [index EXCEPT ![a] = Append(@, b)]

(* The list without its first entry equal to b.                            *)
RemoveFirst(list, b) ==
  LET at == {i \in DOMAIN list : list[i] = b} IN
  IF at = {} THEN list
  ELSE SubSeq(list, 1, Min(at) - 1) \o SubSeq(list, Min(at) + 1, Len(list))

kissat_bin_impl_remove(index, a, b) ==
  IF index = NULL_INDEX THEN index
  ELSE [index EXCEPT ![a] = RemoveFirst(@, b)]

(* A faulty loop that passes over a false entry instead of returning the   *)
(* conflict: C8 must notice it.                                            *)
RECURSIVE PropagateEntries_SkipFalse(_, _, _, _, _)
PropagateEntries_SkipFalse(entries, i, s, lvl, not_lit) ==
  IF i > Len(entries) THEN s
  ELSE
    LET implied == entries[i]
        implied_value == s.values[implied]
    IN
    IF implied_value # 0
    THEN PropagateEntries_SkipFalse(entries, i + 1, s, lvl, not_lit)
    ELSE PropagateEntries_SkipFalse(entries, i + 1,
           [kissat_fast_binary_assign(s, lvl, implied, not_lit)
              EXCEPT !.ticks = @ + 1],
           lvl, not_lit)

(* The loop of kissat_propagate_binary_index over the entries from i on.   *)
(* s holds values, assigned, trail, ticks and the conflict res.            *)
RECURSIVE PropagateEntries(_, _, _, _, _)
PropagateEntries(entries, i, s, lvl, not_lit) ==
  IF i > Len(entries) THEN s
  ELSE
    LET implied == entries[i]
        implied_value == s.values[implied]
    IN
    IF implied_value > 0
    THEN PropagateEntries(entries, i + 1, s, lvl, not_lit)
    ELSE IF implied_value < 0
    THEN [s EXCEPT !.res = kissat_binary_conflict(not_lit, implied)]
    ELSE PropagateEntries(entries, i + 1,
           [kissat_fast_binary_assign(s, lvl, implied, not_lit)
              EXCEPT !.ticks = @ + 1],
           lvl, not_lit)

kissat_propagate_binary_index(index, s, lvl, not_lit) ==
  IF index = NULL_INDEX THEN s
  ELSE IF Len(index[not_lit]) = 0 THEN s
  ELSE PropagateEntries(index[not_lit], 1, s, lvl, not_lit)

----------------------------------------------------------------------------
(* Decisions in stable mode (decide.c).  The scores heap is the set of     *)
(* variables it contains together with the scores; its maximum is the      *)
(* contained variable of largest score, the smallest such variable among   *)
(* equals.  A cache state h is [heap, cache, size, valid, res].            *)

(* INVALID_REF is UINT_MAX in the source: a value above every reference.   *)
INVALID_REF == 2147483647

(* The null pointer in the place of a clause: no reference equals it.      *)
NULL_CLAUSE == INVALID_REF

(* INVALID_IDX is UINT_MAX in the source: any value that is no variable.   *)
INVALID_IDX == -1

(* The number of entries of solver->decision_cache.                        *)
DECISION_CACHE_SIZE == 2

kissat_max_heap(hp, sc) ==
  Min({v \in hp : \A u \in hp : sc[v] >= sc[u]})

kissat_pop_max_heap(hp, sc) == hp \ {kissat_max_heap(hp, sc)}

(* act is the set of the variables with ACTIVE (idx).                      *)
cache_entry_valid(vals, act, idx) ==
  IF idx = INVALID_IDX THEN FALSE
  ELSE IF idx \notin act THEN FALSE
  ELSE vals[LIT(idx)] = 0

get_from_decision_cache(vals, act, h) ==
  IF ~h.valid THEN [h EXCEPT !.res = INVALID_IDX]
  ELSE
    LET hits == {i \in 0 .. h.size - 1 :
                   cache_entry_valid(vals, act, L(h.cache, i))}
    IN
    IF hits # {} THEN
      LET i == Min(hits)
          idx == L(h.cache, i)
      IN [h EXCEPT !.res = idx,
                   !.cache = [j \in DOMAIN h.cache |->
                                IF j = 1 THEN idx
                                ELSE IF j <= i + 1 THEN h.cache[j - 1]
                                ELSE h.cache[j]]]
    ELSE [h EXCEPT !.valid = FALSE, !.res = INVALID_IDX]

(* The loop of fill_decision_cache from iteration i on.                    *)
RECURSIVE FillLoop(_, _, _, _)
FillLoop(vals, sc, h, i) ==
  IF i >= DECISION_CACHE_SIZE * 2 THEN h
  ELSE IF h.heap = {} THEN h
  ELSE
    LET idx == kissat_max_heap(h.heap, sc) IN
    IF vals[LIT(idx)] # 0
    THEN FillLoop(vals, sc,
                  [h EXCEPT !.heap = kissat_pop_max_heap(h.heap, sc)], i + 1)
    ELSE
      LET h1 == [h EXCEPT !.cache[h.size + 1] = idx, !.size = @ + 1] IN
      IF h1.size >= DECISION_CACHE_SIZE THEN h1
      ELSE FillLoop(vals, sc, h1, i + 1)

fill_decision_cache(vals, sc, h) ==
  LET h1 == FillLoop(vals, sc, [h EXCEPT !.size = 0], 0) IN
  [h1 EXCEPT !.valid = (h1.size > 0)]

invalidate_decision_cache(h) == [h EXCEPT !.valid = FALSE, !.size = 0]

(* The fallback loop: assigned variables are popped until the maximum of   *)
(* the heap is unassigned.                                                 *)
RECURSIVE PopAssigned(_, _, _)
PopAssigned(vals, sc, h) ==
  LET res == kissat_max_heap(h.heap, sc) IN
  IF vals[LIT(res)] # 0
  THEN PopAssigned(vals, sc,
                   [h EXCEPT !.heap = kissat_pop_max_heap(h.heap, sc)])
  ELSE [h EXCEPT !.res = res]

largest_score_unassigned_variable(vals, act, sc, h) ==
  LET first == get_from_decision_cache(vals, act, h) IN
  IF first.res # INVALID_IDX THEN first
  ELSE
    LET second == get_from_decision_cache(vals, act,
                                          fill_decision_cache(vals, sc, first))
    IN
    IF second.res # INVALID_IDX THEN second
    ELSE PopAssigned(vals, sc, second)

INITIAL_PHASE(opts) == IF opts.phase THEN 1 ELSE -1

(* A faulty kissat_decide_phase that reads the saved phase although        *)
(* forcephase is on: C36 must notice it.                                   *)
kissat_decide_phase_ForcedReadsSaved(opts, stbl, sw, tgt, sav, idx) ==
  LET r0 == IF ~stbl
            THEN (IF (sw \div 2) % 8 = 1 THEN INITIAL_PHASE(opts)
                  ELSE IF (sw \div 2) % 8 = 3 THEN -INITIAL_PHASE(opts)
                  ELSE 0)
            ELSE 0
      r1 == IF r0 = 0 /\ ~opts.forcephase /\ opts.target # 0
                      /\ (stbl \/ opts.target > 1)
            THEN tgt[idx] ELSE r0
      r2 == IF r1 = 0 /\ opts.phasesaving THEN sav[idx] ELSE r1
      r3 == IF r2 = 0 THEN INITIAL_PHASE(opts) ELSE r2
  IN IF r3 < 0 THEN -1 ELSE 1

(* A faulty kissat_decide_phase that reads the target phase in focused    *)
(* mode with target = 1 as well: C12 must notice it.                       *)
kissat_decide_phase_AlwaysTarget(opts, stbl, sw, tgt, sav, idx) ==
  LET r0 == IF ~stbl
            THEN (IF (sw \div 2) % 8 = 1 THEN INITIAL_PHASE(opts)
                  ELSE IF (sw \div 2) % 8 = 3 THEN -INITIAL_PHASE(opts)
                  ELSE 0)
            ELSE 0
      r1 == IF r0 = 0 /\ ~opts.forcephase /\ opts.target # 0
            THEN tgt[idx] ELSE r0
      r2 == IF r1 = 0 /\ ~opts.forcephase /\ opts.phasesaving
            THEN sav[idx] ELSE r1
      r3 == IF r2 = 0 THEN INITIAL_PHASE(opts) ELSE r2
  IN IF r3 < 0 THEN -1 ELSE 1

(* kissat_decide_phase: the phase forced by the mode switch count in       *)
(* focused mode, else the target phase, else the saved phase, else the     *)
(* initial phase.                                                          *)
kissat_decide_phase(opts, stbl, sw, tgt, sav, idx) ==
  LET force == opts.forcephase
      use_target == IF force THEN FALSE
                    ELSE IF opts.target = 0 THEN FALSE
                    ELSE stbl \/ opts.target > 1
      use_saved == IF force THEN FALSE ELSE opts.phasesaving
      r0 == IF ~stbl
            THEN (IF (sw \div 2) % 8 = 1 THEN INITIAL_PHASE(opts)
                  ELSE IF (sw \div 2) % 8 = 3 THEN -INITIAL_PHASE(opts)
                  ELSE 0)
            ELSE 0
      r1 == IF r0 = 0 /\ use_target THEN tgt[idx] ELSE r0
      r2 == IF r1 = 0 /\ use_saved THEN sav[idx] ELSE r1
      r3 == IF r2 = 0 THEN INITIAL_PHASE(opts) ELSE r2
  IN IF r3 < 0 THEN -1 ELSE 1

----------------------------------------------------------------------------
(* The decision queue of focused mode (inlinequeue.h is not part of the    *)
(* sources: the queue is the doubly linked list of the design, ordered by  *)
(* an increasing stamp, with a search cursor).  A queue state lq is        *)
(* [links, queue].                                                         *)

(* DISCONNECT is UINT_MAX in the source: any value that is no variable.    *)
DISCONNECT == -1

DISCONNECTED(idx) == idx = DISCONNECT

kissat_update_queue(lnk, q, idx) ==
  [q EXCEPT !.search = [idx |-> idx, stamp |-> lnk[idx].stamp]]

kissat_dequeue_links(lq, i) ==
  LET j == lq.links[i].prev
      k == lq.links[i].next
      l1 == IF DISCONNECTED(j) THEN lq.links
            ELSE [lq.links EXCEPT ![j].next = k]
      l2 == IF DISCONNECTED(k) THEN l1 ELSE [l1 EXCEPT ![k].prev = j]
  IN [links |-> [l2 EXCEPT ![i].prev = DISCONNECT, ![i].next = DISCONNECT],
      queue |-> [lq.queue EXCEPT
                   !.first = IF DISCONNECTED(j) THEN k ELSE @,
                   !.last = IF DISCONNECTED(k) THEN j ELSE @]]

kissat_enqueue_links(lq, i) ==
  LET j == lq.queue.last
      l1 == IF DISCONNECTED(j) THEN lq.links
            ELSE [lq.links EXCEPT ![j].next = i]
  IN [links |-> [l1 EXCEPT ![i] = [prev |-> j, next |-> DISCONNECT,
                                   stamp |-> lq.queue.stamp + 1]],
      queue |-> [lq.queue EXCEPT
                   !.first = IF DISCONNECTED(j) THEN i ELSE @,
                   !.last = i,
                   !.stamp = @ + 1]]

(* kissat_enqueue: the variable is appended and, if unassigned, becomes    *)
(* the search cursor.                                                      *)
kissat_enqueue(vals, lq, idx) ==
  LET r == kissat_enqueue_links(lq, idx) IN
  IF vals[LIT(idx)] = 0
  THEN [r EXCEPT !.queue = kissat_update_queue(r.links, r.queue, idx)]
  ELSE r

(* kissat_move_to_front: the bumped variable gets the largest stamp.       *)
kissat_move_to_front(vals, lq, idx) ==
  IF idx = lq.queue.last THEN lq
  ELSE
    LET tmp == vals[LIT(idx)]
        prev == lq.links[idx].prev
        q1 == IF tmp # 0 /\ lq.queue.search.idx = idx
              THEN kissat_update_queue(lq.links, lq.queue,
                      IF ~DISCONNECTED(prev) THEN prev
                      ELSE lq.links[idx].next)
              ELSE lq.queue
        r == kissat_enqueue_links(
               kissat_dequeue_links([lq EXCEPT !.queue = q1], idx), idx)
    IN IF tmp = 0
       THEN [r EXCEPT !.queue = kissat_update_queue(r.links, r.queue, idx)]
       ELSE r

(* The queue after the variables of V were enqueued in increasing order.   *)
RECURSIVE EnqueueAll(_, _, _)
EnqueueAll(vals, lq, V) ==
  IF V = {} THEN lq
  ELSE EnqueueAll(vals, kissat_enqueue(vals, lq, Min(V)), V \ {Min(V)})

kissat_init_queue(vals, V) ==
  EnqueueAll(vals,
             [links |-> [v \in V |-> [prev |-> DISCONNECT,
                                      next |-> DISCONNECT, stamp |-> 0]],
              queue |-> [first |-> DISCONNECT, last |-> DISCONNECT,
                         stamp |-> 0,
                         search |-> [idx |-> DISCONNECT, stamp |-> 0]]],
             V)

----------------------------------------------------------------------------
(* Decisions in focused mode (decide.c).                                   *)

(* The loop of tseitin_level from the given level and threshold on.        *)
RECURSIVE TseitinLevelLoop(_, _, _)
TseitinLevelLoop(idx, lvl, threshold) ==
  IF idx > threshold /\ lvl < 10
  THEN TseitinLevelLoop(idx, lvl + 1, threshold * 3)
  ELSE lvl

tseitin_level(opts, idx) ==
  IF ~opts.tseitindec THEN 0
  ELSE IF idx < 1000 THEN 0
  ELSE TseitinLevelLoop(idx, 0, 1000)

(* best_level starts at UINT_MAX: any value above every Tseitin level.     *)
NO_LEVEL == 11

(* One iteration of the first pass; st is [best, best_level,               *)
(* first_unassigned, candidate, stop], where stop says that the loop was   *)
(* left by its break or because candidate is disconnected.                 *)
TseitinVisit(opts, lnk, vals, st) ==
  IF st.stop THEN st
  ELSE IF DISCONNECTED(st.candidate) THEN [st EXCEPT !.stop = TRUE]
  ELSE IF vals[LIT(st.candidate)] = 0 THEN
    LET st1 == IF st.first_unassigned = INVALID_IDX
               THEN [st EXCEPT !.first_unassigned = st.candidate] ELSE st
        lvl == tseitin_level(opts, st.candidate)
    IN
    IF lvl < st1.best_level THEN
      LET st2 == [st1 EXCEPT !.best = st.candidate, !.best_level = lvl] IN
      IF lvl = 0 THEN [st2 EXCEPT !.stop = TRUE]
      ELSE [st2 EXCEPT !.candidate = lnk[st.candidate].prev]
    ELSE [st1 EXCEPT !.candidate = lnk[st.candidate].prev]
  ELSE [st EXCEPT !.candidate = lnk[st.candidate].prev]

(* n iterations of the first pass of find_tseitin_preferred_variable from  *)
(* st on, the first half of them and then the rest.                        *)
RECURSIVE TseitinFirstPass(_, _, _, _, _)
TseitinFirstPass(opts, lnk, vals, st, n) ==
  IF st.stop \/ n = 0 THEN st
  ELSE IF n = 1 THEN TseitinVisit(opts, lnk, vals, st)
  ELSE TseitinFirstPass(opts, lnk, vals,
                        TseitinFirstPass(opts, lnk, vals, st, n \div 2),
                        n - n \div 2)

(* One iteration of the emergency scan forward; st is [res, candidate,     *)
(* stop].                                                                  *)
TseitinAhead(lnk, vals, st) ==
  IF st.stop THEN st
  ELSE IF DISCONNECTED(st.candidate) THEN [st EXCEPT !.stop = TRUE]
  ELSE IF vals[LIT(st.candidate)] = 0
  THEN [st EXCEPT !.res = st.candidate, !.stop = TRUE]
  ELSE [st EXCEPT !.candidate = lnk[st.candidate].next]

(* n iterations of the emergency scan forward from st on.                  *)
RECURSIVE TseitinForward(_, _, _, _)
TseitinForward(lnk, vals, st, n) ==
  IF st.stop \/ n = 0 THEN st
  ELSE IF n = 1 THEN TseitinAhead(lnk, vals, st)
  ELSE TseitinForward(lnk, vals, TseitinForward(lnk, vals, st, n \div 2),
                      n - n \div 2)

(* A faulty end without the scan of all variables: C35 must notice it.     *)
TseitinLast_None(vals, act, res) == res

(* The final emergency: if res is assigned, the first variable in the      *)
(* order of the indices that is active and unassigned.                     *)
TseitinLast(vals, act, res) ==
  LET free == {idx \in act : vals[LIT(idx)] = 0} IN
  IF vals[LIT(res)] # 0 /\ free # {} THEN Min(free) ELSE res

(* The result is [res, queue].                                             *)
find_tseitin_preferred_variable(opts, lnk, q, vals, act) ==
  LET start == q.search.idx IN
  IF vals[LIT(start)] = 0 THEN [res |-> start, queue |-> q]
  ELSE
    LET st == TseitinFirstPass(opts, lnk, vals,
                [best |-> INVALID_IDX, best_level |-> NO_LEVEL,
                 first_unassigned |-> INVALID_IDX, candidate |-> start,
                 stop |-> FALSE], 1000)
        forward == TseitinForward(lnk, vals,
                     [res |-> start, candidate |-> start, stop |-> FALSE],
                     10000).res
        res == IF st.best # INVALID_IDX THEN st.best
               ELSE IF st.first_unassigned # INVALID_IDX
               THEN st.first_unassigned
               ELSE TseitinLast(vals, act, forward)
    IN [res |-> res, queue |-> kissat_update_queue(lnk, q, res)]

(* The walk along prev of the branch without tseitindec.                   *)
RECURSIVE WalkPrev(_, _, _)
WalkPrev(lnk, vals, res) ==
  IF vals[LIT(res)] # 0 THEN WalkPrev(lnk, vals, lnk[res].prev) ELSE res

last_enqueued_unassigned_variable(opts, lnk, q, vals, act) ==
  IF opts.tseitindec
  THEN find_tseitin_preferred_variable(opts, lnk, q, vals, act)
  ELSE
    LET res == q.search.idx IN
    IF vals[LIT(res)] # 0
    THEN LET found == WalkPrev(lnk, vals, lnk[res].prev) IN
         [res |-> found, queue |-> kissat_update_queue(lnk, q, found)]
    ELSE [res |-> res, queue |-> q]

(* kissat_logn: the logarithm to base ten of count + 9, as a double.       *)
kissat_logn(count) == log10(count + 9)

(* kissat_start_random_sequence on the state sv of the solver (see         *)
(* kissat_next_decision_variable).  The length of the sequence is the      *)
(* double product randeclength * LOGN (count) cut to an integer, and       *)
(* UPDATE_CONFLICT_LIMIT moves the limit by randecint * LOGN (count), cut  *)
(* to an integer as well, beyond the conflicts counted.                    *)
kissat_start_random_sequence(opts, sv) ==
  IF ~opts.randec THEN sv
  ELSE IF sv.stable /\ ~opts.randecstable THEN sv
  ELSE IF ~sv.stable /\ ~opts.randecfocused THEN sv
  ELSE IF sv.randec # 0 THEN sv
  ELSE
    The({[sv EXCEPT
            !.statistics.random_sequences = count,
            !.randec = DTrunc(DMul(D(opts.randeclength), kissat_logn(count))),
            !.limits.randec.conflicts =
               sv.statistics.conflicts
                 + DTrunc(DMul(D(opts.randecint), kissat_logn(count)))] :
           count \in {sv.statistics.random_sequences + 1}})

(* next_random_decision.  pick is the first variable the random generator  *)
(* draws that is active and unassigned; there is no variable (VARS is      *)
(* zero) when no literal has a value.                                      *)
next_random_decision(opts, sv, pick) ==
  IF DOMAIN sv.values = {} THEN [sv EXCEPT !.res = INVALID_IDX]
  ELSE IF sv.warming THEN [sv EXCEPT !.res = INVALID_IDX]
  ELSE IF ~opts.randec THEN [sv EXCEPT !.res = INVALID_IDX]
  ELSE IF sv.stable /\ ~opts.randecstable THEN [sv EXCEPT !.res = INVALID_IDX]
  ELSE IF ~sv.stable /\ ~opts.randecfocused
  THEN [sv EXCEPT !.res = INVALID_IDX]
  ELSE IF sv.randec = 0 /\ sv.level > 1 THEN [sv EXCEPT !.res = INVALID_IDX]
  ELSE IF sv.randec = 0 /\ sv.statistics.conflicts < sv.limits.randec.conflicts
  THEN [sv EXCEPT !.res = INVALID_IDX]
  ELSE
    [(IF sv.randec = 0 THEN kissat_start_random_sequence(opts, sv) ELSE sv)
       EXCEPT !.res = pick]

(* The variables the loop of next_random_decision can return on sv, or     *)
(* INVALID_IDX alone when the function returns before the loop.            *)
RandomPicks(opts, sv) ==
  LET free == {idx \in sv.active : sv.values[LIT(idx)] = 0} IN
  IF free = {} THEN {INVALID_IDX}
  ELSE IF next_random_decision(opts, sv, Min(free)).res = INVALID_IDX
  THEN {INVALID_IDX}
  ELSE free

(* kissat_next_decision_variable.  sv holds what the function reads and    *)
(* writes: values, active, scores, cache (heap and decision cache), links, *)
(* queue, stable, warming, randec, level, statistics, limits, and the      *)
(* result res.                                                             *)
kissat_next_decision_variable(opts, sv, pick) ==
  The({IF r.res # INVALID_IDX THEN r
       ELSE IF sv.stable
       THEN The({[r EXCEPT !.res = h.res, !.cache = h] :
                   h \in {largest_score_unassigned_variable(
                            sv.values, sv.active, sv.scores, sv.cache)}})
       ELSE The({[r EXCEPT !.res = d.res, !.queue = d.queue] :
                   d \in {last_enqueued_unassigned_variable(
                            opts, sv.links, sv.queue, sv.values,
                            sv.active)}}) :
         r \in {next_random_decision(opts, sv, pick)}})

----------------------------------------------------------------------------
(* Input formulas.  A clause is its sequence of literals; clauses of one   *)
(* literal are assigned at level 0, clauses of two literals live in the    *)
(* watch lists alone, larger clauses are allocated in the arena and        *)
(* watched by their first two literals.                                    *)

NewClause(lits, base) ==
  [lits |-> lits, garbage |-> FALSE, searched |-> 2, base |-> base,
   redundant |-> FALSE, reason |-> FALSE, used |-> 0, glue |-> 0]

RECURSIVE AddClauses(_, _, _)
AddClauses(cls, base, st) ==
  IF cls = <<>> THEN st
  ELSE
    LET c == Head(cls)
        next ==
          IF Len(c) = 1 THEN [st EXCEPT !.units = Append(@, c[1])]
          ELSE IF Len(c) = 2 THEN
            [st EXCEPT !.watches =
               [[@ EXCEPT ![c[1]] = Append(@, kissat_binary_watch(c[2]))]
                   EXCEPT ![c[2]] = Append(@, kissat_binary_watch(c[1]))]]
          ELSE
            LET ref == Len(st.clauses) + 1 IN
            [st EXCEPT !.clauses = Append(@, NewClause(c, base)),
                       !.watches =
               [[@ EXCEPT ![c[1]] =
                     Append(@, kissat_blocking_watch(c[2], ref))]
                   EXCEPT ![c[2]] =
                     Append(@, kissat_blocking_watch(c[1], ref))]]
    IN AddClauses(Tail(cls), base, next)

Lits(nvars) == 0 .. 2 * nvars - 1
Vars(nvars) == 0 .. nvars - 1

LitsOver(V) == {LIT(v) : v \in V} \cup {NOT(LIT(v)) : v \in V}

(* The clauses of f over the active variables V.                           *)
IngestOver(V, f) ==
  AddClauses(f.cls, f.base,
             [clauses |-> <<>>, watches |-> [l \in LitsOver(V) |-> <<>>],
              units |-> <<>>])

Ingest(f) == IngestOver(Vars(f.nvars), f)

(* (x0 | x1 | x2) & !x0 & !x1 *)
FormulaUnit ==
  [nvars |-> 3, cls |-> << <<0, 2, 4>>, <<1>>, <<3>> >>, base |-> 0,
   paths |-> {"scalar"}, stable |-> FALSE, decisions |-> MaxDecisions,
   decs |-> Lits(3)]

(* (x0 | x1) & (!x0 | x2) & (!x1 | x2) & !x2 *)
FormulaBinary ==
  [nvars |-> 3, cls |-> << <<0, 2>>, <<1, 4>>, <<3, 4>>, <<5>> >>, base |-> 0,
   paths |-> {"scalar"}, stable |-> FALSE, decisions |-> MaxDecisions,
   decs |-> Lits(3)]

(* binary, ternary and small clauses over five variables:                  *)
(*   (x0 | x1 | x2 | x3) (x0 | x1 | x2 | !x3) (!x0 | !x1 | x4)             *)
(*   (!x2 | !x4) (!x0 | x1 | !x2 | x3 | !x4) (!x2 | !x4)                   *)
FormulaSmall ==
  [nvars |-> 5,
   cls |-> << <<0, 2, 4, 6>>, <<0, 2, 4, 7>>, <<1, 3, 8>>, <<5, 9>>,
              <<1, 2, 5, 6, 9>>, <<5, 9>> >>,
   base |-> 0, paths |-> {"scalar"}, stable |-> FALSE,
   decisions |-> MaxDecisions,
   decs |-> {1, 3, 4, 5}]

(* one clause of 18 positive literals x0 .. x17, whose literals from       *)
(* position 2 on start at a 64-byte boundary, and the clause (!x1 | x17)   *)
FormulaWide ==
  [nvars |-> 18,
   cls |-> << [i \in 1 .. 18 |-> 2 * (i - 1)], <<3, 34>> >>,
   base |-> 14, paths |-> {"scalar", "avx2", "avx512"}, stable |-> FALSE,
   decisions |-> MaxDecisions,
   decs |-> {1, 3, 7}]

(* (!x0 | x1) & (!x0 | x1 | x2) & (!x0 | x2) & (!x0 | !x1) *)
FormulaClash ==
  [nvars |-> 3, cls |-> << <<1, 2>>, <<1, 2, 4>>, <<1, 4>>, <<1, 3>> >>,
   base |-> 0, paths |-> {"scalar"}, stable |-> FALSE,
   decisions |-> MaxDecisions, decs |-> {0, 1, 3}]

(* FormulaQueue in a solver that has seen as many conflicts as the first   *)
(* random decision sequence waits for                                      *)
FormulaBurst ==
  [nvars |-> 5,
   cls |-> << <<7, 5, 2>>, <<7, 5, 3>>, <<0, 8>> >>,
   base |-> 0,
   paths |-> {"scalar"}, stable |-> FALSE, decisions |-> MaxFocusedDecisions,
   decs |-> {}, active |-> Vars(5), conflicts |-> 500]

Formulas ==
  {FormulaUnit, FormulaBinary, FormulaClash, FormulaSmall, FormulaWide}

(* two variables and no clause *)
FormulaNone ==
  [nvars |-> 2, cls |-> <<>>, base |-> 0, paths |-> {"scalar"},
   stable |-> FALSE, decisions |-> MaxDecisions, decs |-> {}]

(* (!x1 | x2) & (!x2 | x3) & (!x2 | !x3) & (x3 | x4 | x5) & (x3 | !x4)     *)
(* over x0 .. x5, in stable mode; x0 occurs in no clause                   *)
FormulaDecide ==
  [nvars |-> 6,
   cls |-> << <<3, 4>>, <<5, 6>>, <<5, 7>>, <<6, 8, 10>>, <<6, 9>> >>,
   base |-> 0,
   paths |-> {"scalar"}, stable |-> TRUE, decisions |-> MaxStableDecisions,
   decs |-> {}]

(* (!x1 | x2) & (!x1 | x3) & (!x2 | !x3) over x0 .. x4, in stable mode; x0  *)
(* and x4 occur in no clause                                               *)
FormulaBump ==
  [nvars |-> 5,
   cls |-> << <<3, 4>>, <<3, 6>>, <<5, 7>> >>,
   base |-> 0,
   paths |-> {"scalar"}, stable |-> TRUE, decisions |-> MaxStableDecisions,
   decs |-> {}]

(* (!x3 | !x2 | x1) & (!x3 | !x2 | !x1) & (x0 | x4) over x0 .. x4, in      *)
(* focused mode                                                            *)
FormulaQueue ==
  [nvars |-> 5,
   cls |-> << <<7, 5, 2>>, <<7, 5, 3>>, <<0, 8>> >>,
   base |-> 0,
   paths |-> {"scalar"}, stable |-> FALSE, decisions |-> MaxFocusedDecisions,
   decs |-> {}, active |-> Vars(5)]

(* (!x0 | !x1500) over the active variables x0, x1, x1500 and x5000 of a   *)
(* solver with 5001 variables, in focused mode                             *)
FormulaTseitin ==
  [nvars |-> 5001, cls |-> << <<1, 3001>> >>, base |-> 0,
   paths |-> {"scalar"}, stable |-> FALSE, decisions |-> MaxFocusedDecisions,
   decs |-> {}, active |-> {0, 1, 1500, 5000}]

----------------------------------------------------------------------------
(* The solver state after the formula is read.                             *)

RECURSIVE AssignUnits(_, _)
AssignUnits(units, s) ==
  IF units = <<>> THEN s
  ELSE AssignUnits(Tail(units), Assign(s, 0, Head(units), UnitReason))

DefaultOptions ==
  [forcephase |-> FALSE, target |-> 1, phasesaving |-> TRUE, phase |-> TRUE,
   restartreusetrail |-> TRUE, tseitindec |-> FALSE, restart |-> TRUE,
   restartmargin |-> 10, restartint |-> 1, restartadaptive |-> FALSE, reduce |-> TRUE, reduceint |-> 1000,
   reducehigh |-> 900, reducelow |-> 500, reducefactor |-> 100,
   reduceadaptive |-> FALSE, randec |-> TRUE, randecfocused |-> TRUE,
   randecstable |-> FALSE, randeclength |-> 10, randecint |-> 500]


(* last.reduce_timing before the first reduction: the times and the scale  *)
(* are doubles, the times in seconds.                                      *)
NoTiming ==
  [duration |-> DZero, prev_start_conflicts |-> 0, start_conflicts |-> 0,
   start_time |-> DZero, end_time |-> DZero, current_scale |-> Lit_1]

(* A reading of the clock: n units of 10 microseconds, in seconds.         *)
ClockUnitsPerSecond == D(100000)
Seconds(n) == DDiv(D(n), ClockUnitsPerSecond)

NoCall == [fn |-> "none", called |-> TRUE]

NoScan == [called |-> FALSE]

(* cpu_features = {0}: the flags before kissat_init_simd_support ran.      *)
NoFeatures ==
  [initialized |-> FALSE, avx2 |-> FALSE, avx512f |-> FALSE,
   avx512bw |-> FALSE]

(* What CPUID reports on a machine whose dispatch takes the path, the      *)
(* build having every path compiled in.                                    *)
CpuOf(path) ==
  [avx2 |-> path \in {"avx2", "avx512"}, avx512f |-> path = "avx512",
   avx512bw |-> path = "avx512"]

(* The flags kissat_init_simd_support fills in from CPUID.                 *)
Detected(cpu) ==
  [initialized |-> TRUE, avx2 |-> cpu.avx2, avx512f |-> cpu.avx512f,
   avx512bw |-> cpu.avx512bw]

(* The path the dispatch of kissat_simd_find_non_false takes.              *)
DispatchPath(features) ==
  IF features.avx512f /\ features.avx512bw THEN "avx512"
  ELSE IF features.avx2 THEN "avx2"
  ELSE "scalar"

simd == DispatchPath(cpu_features)

(* The state over the active variables V, but for scan, call and           *)
(* cpu_features.                                                           *)
InitStateOver(V, f, path, opts) ==
  LET st == IngestOver(V, f)
      s == AssignUnits(st.units,
             [values |-> [l \in LitsOver(V) |-> 0],
              assigned |-> [v \in V |->
                              [level |-> 0, reason |-> NoReason]],
              trail |-> <<>>])
      lq == kissat_init_queue([l \in LitsOver(V) |-> 0], V)
  IN
  /\ clauses = st.clauses
  /\ watches = st.watches
  /\ bin_index = kissat_rebuild_bin_index(st.watches)
  /\ binaries = SelectSeq(f.cls, LAMBDA c : Len(c) = 2)
  /\ delayed = <<>>
  /\ values = s.values
  /\ assigned = s.assigned
  /\ trail = s.trail
  /\ propagate = 0
  /\ level = 0
  /\ conflict = NoConflict
  /\ ticks = 0
  /\ stable = f.stable
  /\ heap = V
  /\ scores = [v \in V |-> 0]
  /\ decision_cache = [i \in 1 .. DECISION_CACHE_SIZE |-> 0]
  /\ decision_cache_size = 0
  /\ decision_cache_valid = FALSE
  /\ saved = [v \in V |-> 0]
  /\ target = [v \in V |-> 0]
  /\ switched = 0
  /\ options = opts
  /\ cpuid = CpuOf(path)
  /\ active = V
  /\ randec = 0
  /\ warming = FALSE
  /\ decs = f.decs
  /\ garbage_left = MaxGarbage
  /\ decisions_left = f.decisions
  /\ index_op = "rebuild"
  /\ links = lq.links
  /\ queue = lq.queue
  /\ inconsistent = FALSE
  /\ statistics = [conflicts |-> IF "conflicts" \in DOMAIN f
                                 THEN f.conflicts ELSE 0,
                   reductions |-> 0, restarts |-> 0,
                   learned |-> 0, decisions |-> 0, random_sequences |-> 0]
  /\ limits = [reduce |-> [conflicts |-> opts.reduceint],
               restart |-> [conflicts |-> 0],
               randec |-> [conflicts |-> opts.randecint]]
  /\ last = [reduce_timing |-> NoTiming, conflicts |-> [reduce |-> 0]]
  /\ first_reducible = INVALID_REF

(* The same with the CPU features detected.                                *)
InitSolverOver(V, f, path, opts) ==
  /\ InitStateOver(V, f, path, opts)
  /\ cpu_features = Detected(CpuOf(path))

InitSolver(f, path, opts) ==
  /\ InitSolverOver(Vars(f.nvars), f, path, opts)
  /\ call = NoCall

InitFormula(f, path, opts) ==
  /\ InitSolver(f, path, opts)
  /\ scan = NoScan

(* The process starts with cpu_features = {0}.                            *)
Init ==
  \E f \in Formulas : \E path \in f.paths :
     /\ InitStateOver(Vars(f.nvars), f, path, DefaultOptions)
     /\ cpu_features = NoFeatures
     /\ call = NoCall
     /\ scan = NoScan

----------------------------------------------------------------------------
(* The search loop around propagation.                                     *)

(* The bytes behind the values array are read by the AVX-512 path alone.   *)
Pads(path) ==
  IF path = "avx512" THEN [1 .. 3 -> {-1, 0}] ELSE {[i \in 1 .. 3 |-> 0]}

(* The clause the propagation under way ignores: the one its caller gave  *)
(* when it is the probing instance, none otherwise.                        *)
Ignored ==
  IF call.fn = "kissat_probing_propagate" /\ ~call.called THEN call.ignore
  ELSE NULL_CLAUSE

(* One iteration of the propagation loop: the next trail literal is        *)
(* propagated by PROPAGATE_LITERAL.                                        *)
PropagateLiteral ==
  /\ conflict.kind = "none"
  /\ propagate < Len(trail)
  /\ \E pad \in Pads(simd) :
     \E r \in {PROPAGATE_LITERAL([path |-> simd, base |-> 0, pad |-> pad,
                                  ignore |-> Ignored],
                                 watches, trail[propagate + 1])} :
       /\ clauses' = r.clauses
       /\ watches' = r.watches
       /\ delayed' = r.delayed
       /\ values' = r.values
       /\ assigned' = r.assigned
       /\ trail' = r.trail
       /\ conflict' = r.res
       /\ ticks' = r.ticks
  /\ propagate' = propagate + 1
  /\ UNCHANGED <<level, bin_index, binaries, heurVars, envVars, garbage_left,
                 decisions_left, index_op, scan,
                 queueVars, redVars, call>>

(* kissat_propagate_binary_index called for the next trail literal with    *)
(* the level of that literal, as PROPAGATE_LITERAL passes it to            *)
(* kissat_fast_binary_assign: the implied literals are assigned and        *)
(* pushed on the trail, each counts one tick, a false one becomes the      *)
(* binary conflict of the solver; solver->propagate is not written.        *)
PropagateBinaryIndex ==
  /\ conflict.kind = "none"
  /\ propagate < Len(trail)
  /\ \E lit \in {trail[propagate + 1]} :
     \E r \in {kissat_propagate_binary_index(
                 bin_index,
                 [values |-> values, assigned |-> assigned, trail |-> trail,
                  ticks |-> ticks, res |-> NoConflict],
                 assigned[IDX(lit)].level, NOT(lit))} :
       /\ values' = r.values
       /\ assigned' = r.assigned
       /\ trail' = r.trail
       /\ conflict' = r.res
       /\ ticks' = r.ticks
  /\ UNCHANGED <<cdbVars, propagate, level, heurVars, envVars, garbage_left,
                 decisions_left, index_op, scan, queueVars, redVars, call>>

Propagated == conflict.kind = "none" /\ propagate = Len(trail)

(* kissat_init_simd_support: the first call fills cpu_features from CPUID, *)
(* every later call returns at once.                                       *)
kissat_init_simd_support ==
  /\ cpu_features' = IF cpu_features.initialized THEN cpu_features
                     ELSE Detected(cpuid)
  /\ UNCHANGED <<cdbVars, asgVars, heurVars, cpuid, decs, options, active,
                 randec, warming, ticks, garbage_left, decisions_left,
                 index_op, scan, queueVars, redVars, call>>

(* kissat_simd_available: the features are detected if they were not, and  *)
(* the result says whether AVX-512 F and BW are both there.                *)
kissat_simd_available ==
  /\ call.called
  /\ LET features == IF cpu_features.initialized THEN cpu_features
                     ELSE Detected(cpuid)
     IN
     /\ cpu_features' = features
     /\ call' = [fn |-> "kissat_simd_available", called |-> TRUE,
                 res |-> features.avx512f /\ features.avx512bw]
  /\ UNCHANGED <<cdbVars, asgVars, heurVars, cpuid, decs, options, active,
                 randec, warming, ticks, garbage_left, decisions_left,
                 index_op, scan, queueVars, redVars>>

(* kissat_assign_decision: the literal becomes the decision of the level.  *)
kissat_assign_decision(lit) ==
  /\ values' = [values EXCEPT ![lit] = 1, ![NOT(lit)] = -1]
  /\ assigned' = [assigned EXCEPT ![IDX(lit)] =
                    [level |-> level', reason |-> DecisionReason]]
  /\ trail' = Append(trail, lit)

(* kissat_internal_assume: a new level is opened and the literal chosen    *)
(* by the caller assigned as its decision.                                 *)
kissat_internal_assume(lit) ==
  /\ Propagated
  /\ decisions_left > 0
  /\ values[lit] = 0
  /\ decisions_left' = decisions_left - 1
  /\ level' = level + 1
  /\ kissat_assign_decision(lit)
  /\ UNCHANGED <<cdbVars, propagate, conflict, ticks, heurVars, envVars,
                 garbage_left, index_op, scan,
                 queueVars, redVars, call>>

CacheState ==
  [heap |-> heap, cache |-> decision_cache, size |-> decision_cache_size,
   valid |-> decision_cache_valid, res |-> INVALID_IDX]

(* solver->unassigned counts the active variables without a value.        *)
Unassigned == {v \in active : values[LIT(v)] = 0}

(* What kissat_next_decision_variable reads of the solver when the level   *)
(* is lvl and the statistics are stats.                                    *)
DecisionState(lvl, stats) ==
  [values |-> values, active |-> active, scores |-> scores,
   cache |-> CacheState, links |-> links, queue |-> queue,
   stable |-> stable, warming |-> warming, randec |-> randec, level |-> lvl,
   statistics |-> stats, limits |-> limits, res |-> INVALID_IDX]

(* The next decision variable at the current level, for each variable the  *)
(* random generator can draw.                                              *)
NextDecisions ==
  {kissat_next_decision_variable(options, DecisionState(level, statistics),
                                 pick) :
     pick \in RandomPicks(options, DecisionState(level, statistics))}

(* kissat_decide: the decision is counted unless the solver is warming up, *)
(* the level is opened, the variable comes from                            *)
(* kissat_next_decision_variable and its phase from kissat_decide_phase.   *)
kissat_decide ==
  /\ Propagated
  /\ decisions_left > 0
  /\ Unassigned # {}
  /\ \E sv \in {DecisionState(level + 1,
                                IF warming THEN statistics
                                ELSE [statistics EXCEPT
                                        !.decisions = @ + 1])} :
     \E pick \in RandomPicks(options, sv) :
     \E d \in {kissat_next_decision_variable(options, sv, pick)} :
       LET value == kissat_decide_phase(options, stable, switched, target,
                                        saved, d.res)
           lit == IF value < 0 THEN NOT(LIT(d.res)) ELSE LIT(d.res)
       IN
       /\ level' = level + 1
       /\ heap' = d.cache.heap
       /\ decision_cache' = d.cache.cache
       /\ decision_cache_size' = d.cache.size
       /\ decision_cache_valid' = d.cache.valid
       /\ queue' = d.queue
       /\ randec' = d.randec
       /\ statistics' = d.statistics
       /\ limits' = d.limits
       /\ kissat_assign_decision(lit)
  /\ decisions_left' = decisions_left - 1
  /\ UNCHANGED <<cdbVars, propagate, conflict, ticks, stable, scores, saved,
                 target, switched, cpu_features, cpuid, decs, options, active,
                 warming, garbage_left, index_op, scan, links, inconsistent,
                 last, first_reducible, call>>

RECURSIVE KeepTrail(_, _, _)
KeepTrail(t, asg, new_level) ==
  IF t = <<>> THEN <<>>
  ELSE IF asg[IDX(Head(t))].level > new_level
  THEN KeepTrail(Tail(t), asg, new_level)
  ELSE <<Head(t)>> \o KeepTrail(Tail(t), asg, new_level)

(* The variables a backtrack to new_level unassigns.                       *)
Gone(new_level) ==
  {v \in DOMAIN assigned :
     values[LIT(v)] # 0 /\ assigned[v].level > new_level}

(* The search cursor after the variables of gone were unassigned: a       *)
(* variable whose stamp is above the stamp of the cursor becomes the       *)
(* cursor.                                                                 *)
BackQueue(lnk, q, gone) ==
  LET up == {v \in gone : lnk[v].stamp > q.search.stamp} IN
  IF up = {} THEN q
  ELSE kissat_update_queue(lnk, q,
         CHOOSE v \in up : \A u \in up : lnk[v].stamp >= lnk[u].stamp)

(* A faulty kissat_backtrack that leaves the decision cache as it is: C10  *)
(* must notice it.                                                         *)
kissat_backtrack_KeepCache(new_level, h, lnk, q) ==
  LET gone == Gone(new_level) IN
  /\ values' = [l \in DOMAIN values |->
                  IF IDX(l) \in gone THEN 0 ELSE values[l]]
  /\ assigned' = [v \in DOMAIN assigned |->
                    IF v \in gone THEN [level |-> 0, reason |-> NoReason]
                    ELSE assigned[v]]
  /\ saved' = [v \in DOMAIN saved |->
                 IF v \in gone /\ options.phasesaving
                 THEN values[LIT(v)] ELSE saved[v]]
  /\ trail' = KeepTrail(trail, assigned, new_level)
  /\ propagate' = Len(KeepTrail(trail, assigned, new_level))
  /\ heap' = IF stable THEN h.heap \cup gone ELSE h.heap
  /\ decision_cache' = h.cache
  /\ decision_cache_size' = h.size
  /\ decision_cache_valid' = h.valid
  /\ queue' = IF stable THEN q ELSE BackQueue(lnk, q, gone)
  /\ level' = new_level
  /\ conflict' = NoConflict

(* kissat_backtrack_without_updating_phases followed by the saving of      *)
(* phases: every variable above the level is unassigned, its phase saved,  *)
(* and pushed back onto the scores heap in stable mode and behind the      *)
(* search cursor of the queue q, with the links lnk, in focused mode.  h   *)
(* is the decision cache and the heap before the backtrack: the cache is   *)
(* invalidated (decision_cache_valid is cleared) when the backtrack        *)
(* unassigns a variable the cache holds.                                   *)
kissat_backtrack(new_level, h, lnk, q) ==
  LET gone == Gone(new_level) IN
  /\ values' = [l \in DOMAIN values |->
                  IF IDX(l) \in gone THEN 0 ELSE values[l]]
  /\ assigned' = [v \in DOMAIN assigned |->
                    IF v \in gone THEN [level |-> 0, reason |-> NoReason]
                    ELSE assigned[v]]
  /\ saved' = [v \in DOMAIN saved |->
                 IF v \in gone /\ options.phasesaving
                 THEN values[LIT(v)] ELSE saved[v]]
  /\ trail' = KeepTrail(trail, assigned, new_level)
  /\ propagate' = Len(KeepTrail(trail, assigned, new_level))
  /\ heap' = IF stable THEN h.heap \cup gone ELSE h.heap
  /\ decision_cache' = h.cache
  /\ decision_cache_size' = h.size
  /\ decision_cache_valid' = IF {h.cache[i] : i \in 1 .. h.size} \cap gone # {} THEN FALSE
                             ELSE h.valid
  /\ queue' = IF stable THEN q ELSE BackQueue(lnk, q, gone)
  /\ level' = new_level
  /\ conflict' = NoConflict

(* The backtrack after a conflict or on request of the driver.             *)
Backtrack(new_level) ==
  /\ new_level < level
  /\ propagate = Len(trail) \/ conflict.kind # "none"
  /\ kissat_backtrack(new_level, CacheState, links, queue)
  /\ UNCHANGED <<cdbVars, ticks, stable, scores, target, switched,
                 envVars, garbage_left, decisions_left, index_op, scan,
                 links, redVars, call>>

IsReason(ref) ==
  \E v \in DOMAIN assigned :
     /\ values[LIT(v)] # 0
     /\ assigned[v].reason = ClauseReason(ref)

(* kissat_mark_clause_as_garbage on a clause that is no reason.            *)
MarkGarbage(ref) ==
  /\ Propagated
  /\ garbage_left > 0
  /\ ~clauses[ref].garbage
  /\ ~IsReason(ref)
  /\ clauses' = [clauses EXCEPT ![ref].garbage = TRUE]
  /\ garbage_left' = garbage_left - 1
  /\ UNCHANGED <<watches, bin_index, binaries, delayed, asgVars, ticks,
                 heurVars,
                 envVars, decisions_left, index_op, scan,
                 queueVars, redVars, call>>

Next ==
  \/ kissat_init_simd_support
  \/ kissat_simd_available
  \/ PropagateLiteral
  \/ PropagateBinaryIndex
  \/ \E lit \in decs : kissat_internal_assume(lit)
  \/ \E new_level \in 0 .. level - 1 : Backtrack(new_level)
  \/ \E ref \in DOMAIN clauses : MarkGarbage(ref)

Spec == Init /\ [][Next]_vars

----------------------------------------------------------------------------
(* Conflicts, decisions and restarts in stable mode.                       *)

(* The variables of the conflict the last scan returned.                   *)
ConflictVars ==
  IF conflict.kind = "binary" THEN {IDX(conflict.a), IDX(conflict.b)}
  ELSE IF conflict.kind = "clause"
  THEN {IDX(clauses[conflict.ref].lits[i]) :
          i \in DOMAIN clauses[conflict.ref].lits}
  ELSE {}

(* The literals of the reason of an assigned variable other than its own. *)
ReasonVars(v) ==
  LET r == assigned[v].reason IN
  IF r.kind = "binary" THEN {IDX(r.lit)}
  ELSE IF r.kind = "clause"
  THEN {IDX(clauses[r.ref].lits[i]) : i \in DOMAIN clauses[r.ref].lits} \ {v}
  ELSE {}

(* The variables the resolution of the conflict can reach.                 *)
RECURSIVE Reach(_)
Reach(S) ==
  LET T == S \cup UNION {ReasonVars(v) : v \in S} IN
  IF T = S THEN S ELSE Reach(T)

(* The analyzed variables are moved to the front of the queue in the      *)
(* order of their stamps.                                                  *)
RECURSIVE MoveToFront(_, _, _)
MoveToFront(vals, lq, analyzed) ==
  IF analyzed = {} THEN lq
  ELSE
    LET idx == CHOOSE v \in analyzed :
                 \A u \in analyzed : lq.links[v].stamp <= lq.links[u].stamp
    IN MoveToFront(vals, kissat_move_to_front(vals, lq, idx),
                   analyzed \ {idx})

(* The conflict is analyzed: the variables of the conflict and some of     *)
(* the variables resolution reaches from them are bumped (their score      *)
(* grows in stable mode, they move to the front of the queue in focused    *)
(* mode), and the solver backtracks below the conflict level.  A random    *)
(* decision sequence lasts for randec conflicts: each conflict analyzed    *)
(* takes one off.                                                          *)
kissat_analyze(new_level) ==
  /\ conflict.kind # "none"
  /\ new_level < level
  /\ \E more \in SUBSET (Reach(ConflictVars) \ ConflictVars) :
       LET analyzed == {v \in ConflictVars \cup more : assigned[v].level > 0}
           lq == IF stable THEN [links |-> links, queue |-> queue]
                 ELSE MoveToFront(values,
                                  [links |-> links, queue |-> queue],
                                  analyzed)
       IN
       /\ stable => \A v \in analyzed : scores[v] < MaxScore
       /\ ~stable => queue.stamp + Cardinality(analyzed) <= MaxStamp
       /\ scores' = [v \in DOMAIN scores |->
                       IF stable /\ v \in analyzed
                       THEN scores[v] + 1 ELSE scores[v]]
       /\ links' = lq.links
       /\ kissat_backtrack(new_level, CacheState, lq.links, lq.queue)
  /\ randec' = IF randec > 0 THEN randec - 1 ELSE randec
  /\ UNCHANGED <<cdbVars, ticks, stable, target, switched, cpu_features, cpuid,
                 decs, options, active, warming,
                 garbage_left, decisions_left, index_op, scan,
                 redVars, call>>

(* FRAME (lvl).decision: the decision literal of a level.                  *)
FrameDecision(lvl) ==
  CHOOSE lit \in {trail[i] : i \in DOMAIN trail} :
    /\ assigned[IDX(lit)].level = lvl
    /\ assigned[IDX(lit)].reason = DecisionReason

(* The loop of reuse_stable_trail: the levels whose decisions all have a   *)
(* score above limit.                                                      *)
RECURSIVE ReuseLevels(_, _)
ReuseLevels(res, limit) ==
  IF res < level /\ scores[IDX(FrameDecision(res + 1))] > limit
  THEN ReuseLevels(res + 1, limit)
  ELSE res

reuse_stable_trail(next_idx) == ReuseLevels(0, scores[next_idx])

(* The loop of reuse_focused_trail: the levels whose decisions all have a  *)
(* stamp above limit.                                                      *)
RECURSIVE ReuseStamps(_, _)
ReuseStamps(res, limit) ==
  IF res < level /\ ~(links[IDX(FrameDecision(res + 1))].stamp <= limit)
  THEN ReuseStamps(res + 1, limit)
  ELSE res

(* A faulty reuse_focused_trail that keeps every level: C14 must notice    *)
(* it.                                                                     *)
reuse_focused_trail_Whole(next_idx) == level

reuse_focused_trail(next_idx) == ReuseStamps(0, links[next_idx].stamp)

(* reuse_trail: the level a restart keeps, with the state in which the     *)
(* search for the next decision variable leaves cache, heap and queue.     *)
(* sv is the state of the solver as kissat_next_decision_variable reads   *)
(* it and pick what its random generator draws; the result is sv as the    *)
(* search for the variable leaves it, res being the level to keep.         *)
reuse_trail(sv, pick) ==
  IF ~options.restartreusetrail THEN [sv EXCEPT !.res = 0]
  ELSE
    The({[d EXCEPT !.res = IF stable THEN reuse_stable_trail(d.res)
                           ELSE reuse_focused_trail(d.res)] :
           d \in {kissat_next_decision_variable(options, sv, pick)}})

(* A faulty kissat_restarting that forgets the conflict limit: C13 must    *)
(* notice it.                                                              *)
kissat_restarting_NoLimit(opts, lvl, conflicts, lim, stbl, reluctant, fast, slow) ==
  IF ~opts.restart THEN FALSE
  ELSE IF lvl = 0 THEN FALSE
  ELSE IF stbl THEN reluctant
  ELSE LET margin == DDiv(DAdd(Lit_100, D(opts.restartmargin)), Lit_100)
           limit == DMul(margin, slow)
       IN DLeq(limit, fast)

(* kissat_restarting.  reluctant is what kissat_reluctant_triggered        *)
(* returns; fast and slow are the doubles AVERAGE (fast_glue) and          *)
(* AVERAGE (slow_glue), and margin and limit are doubles as well.          *)
kissat_restarting(opts, lvl, conflicts, lim, stbl, reluctant, fast, slow) ==
  IF ~opts.restart THEN FALSE
  ELSE IF lvl = 0 THEN FALSE
  ELSE IF conflicts < lim.restart.conflicts THEN FALSE
  ELSE IF stbl THEN reluctant
  ELSE LET margin == DDiv(DAdd(Lit_100, D(opts.restartmargin)), Lit_100)
           limit == DMul(margin, slow)
       IN DLeq(limit, fast)

(* The largest k with 10^k <= n.                                           *)
RECURSIVE FloorLog10(_)
FloorLog10(n) == IF n < 10 THEN 0 ELSE 1 + FloorLog10(n \div 10)

(* The double glue_factor of adaptive_restart_delta; fast and slow are     *)
(* doubles.                                                                *)
glue_factor(fast, slow) ==
  The({IF DLess(DZero, s)
       THEN The({IF DLess(Lit_0_9, ratio) /\ DLess(ratio, Lit_1_1)
                 THEN Lit_1_5
                 ELSE IF DLess(DMul(s, Lit_1_2), f) THEN Lit_2
                 ELSE IF DLess(f, DMul(s, Lit_0_8)) THEN Lit_0_8
                 ELSE Lit_1 : ratio \in {DDiv(f, s)}})
       ELSE Lit_1 : f \in {fast}, s \in {slow}})

(* vivify_rate = (double) vivified / (CONFLICTS / 1000.0).  The tests are  *)
(* in the order of the code: above 5.0 first, above 10.0 in its else       *)
(* branch.                                                                 *)
vivify_factor(vivified, conflicts) ==
  IF vivified > 10000 /\ conflicts > 100000
  THEN The({IF DLess(Lit_5, vivify_rate) THEN Lit_1_4
            ELSE IF DLess(Lit_10, vivify_rate) THEN Lit_1_8
            ELSE Lit_1 :
              vivify_rate \in {DDiv(D(vivified),
                                    DDiv(D(conflicts), Lit_1000))}})
  ELSE Lit_1

(* dec_per_conflict = (double) decisions / CONFLICTS: above 3.0, or below  *)
(* 1.5.                                                                    *)
decision_factor(decisions, conflicts) ==
  IF decisions > 0 /\ conflicts > 10000
  THEN The({IF DLess(Lit_3, dec_per_conflict) THEN Lit_1_3
            ELSE IF DLess(dec_per_conflict, Lit_1_5) THEN Lit_0_9
            ELSE Lit_1 :
              dec_per_conflict \in {DDiv(D(decisions), D(conflicts))}})
  ELSE Lit_1

(* combined_factor: the double product of the three factors, clamped to    *)
(* [0.5, 3.0].                                                             *)
combined_factor(glue, vivify, decision) ==
  The({IF DLess(product, Lit_0_5) THEN Lit_0_5
       ELSE IF DLess(Lit_3, product) THEN Lit_3
       ELSE product : product \in {DMul(DMul(glue, vivify), decision)}})

(* adaptive_restart_delta.  The base interval is restartint plus           *)
(* kissat_logn (restarts) - 1, the decimal logarithm of restarts + 9, cut  *)
(* to an integer when it is added to delta: the sum of the doubles is cut  *)
(* to delta plus the whole part of the logarithm minus one as long as      *)
(* restartint is below 2^20 and restarts below 10^6.  With                 *)
(* restartadaptive on it is multiplied by the combined factor as a         *)
(* double, cut to an integer, and raised to 5 if it is less.  fast and     *)
(* slow are AVERAGE (fast_glue) and AVERAGE (slow_glue).                   *)
adaptive_restart_delta(opts, stats, fast, slow) ==
  LET delta == IF stats.restarts # 0
               THEN opts.restartint + FloorLog10(stats.restarts + 9) - 1
               ELSE opts.restartint
  IN
  IF ~opts.restartadaptive THEN delta
  ELSE The({IF adaptive_delta < 5 THEN 5 ELSE adaptive_delta :
              adaptive_delta \in
                {DTrunc(DMul(D(delta),
                             combined_factor(
                               glue_factor(fast, slow),
                               vivify_factor(stats.vivified, stats.conflicts),
                               decision_factor(stats.decisions,
                                               stats.conflicts))))}})

kissat_update_focused_restart_limit_NoDelta(opts, stats, lim, fast, slow) ==
  [lim EXCEPT !.restart.conflicts = stats.conflicts]

kissat_update_focused_restart_limit(opts, stats, lim, fast, slow) ==
  [lim EXCEPT !.restart.conflicts =
     stats.conflicts + adaptive_restart_delta(opts, stats, fast, slow)]

(* kissat_restart: the level to keep is computed from the next decision    *)
(* variable, then the solver backtracks to it; in focused mode the         *)
(* restart limit is set anew.  The formulas of this specification leave    *)
(* restartadaptive off, and the glue averages, which only the adaptive     *)
(* interval reads, are not part of its state.                              *)
kissat_restart ==
  /\ Propagated
  /\ level > 0
  /\ statistics.restarts < MaxRestarts
  /\ Unassigned # {}
  /\ \E sv \in {DecisionState(level,
                                [statistics EXCEPT !.restarts = @ + 1])} :
     \E pick \in RandomPicks(options, sv) :
     \E r \in {reuse_trail(sv, pick)} :
       /\ randec' = r.randec
       /\ statistics' = r.statistics
       /\ kissat_backtrack(r.res, r.cache, links, r.queue)
       /\ limits' = IF stable THEN r.limits
                    ELSE kissat_update_focused_restart_limit(
                           options, r.statistics, r.limits, DZero, DZero)
  /\ UNCHANGED <<cdbVars, ticks, stable, scores, target, switched,
                 cpu_features, cpuid, decs, options, active, warming,
                 garbage_left, decisions_left, index_op, scan,
                 links, inconsistent, last, first_reducible, call>>

(* kissat_mark_eliminated_variable, called by the variable elimination    *)
(* the core hooks in: at the root level an unassigned variable that        *)
(* occurs in no clause stops being active and leaves the queue and the     *)
(* scores heap.  The decision cache belongs to decide.c and is not told.   *)
kissat_mark_eliminated_variable(idx) ==
  /\ Propagated
  /\ level = 0
  /\ idx \in Unassigned
  /\ Unassigned # {idx}
  /\ \A ref \in DOMAIN clauses :
       \A i \in DOMAIN clauses[ref].lits : IDX(clauses[ref].lits[i]) # idx
  /\ watches[LIT(idx)] = <<>>
  /\ watches[NOT(LIT(idx))] = <<>>
  /\ active' = active \ {idx}
  /\ heap' = heap \ {idx}
  /\ LET next == links[idx].next
         q1 == IF queue.search.idx = idx
               THEN kissat_update_queue(links, queue,
                      IF ~DISCONNECTED(next) THEN next ELSE links[idx].prev)
               ELSE queue
         lq == kissat_dequeue_links([links |-> links, queue |-> q1], idx)
     IN
     /\ links' = lq.links
     /\ queue' = lq.queue
  /\ UNCHANGED <<cdbVars, asgVars, stable, scores, decision_cache,
                 decision_cache_size, decision_cache_valid, saved, target,
                 switched, cpu_features, cpuid, decs, options, randec,
                 warming, ticks, garbage_left, decisions_left, index_op,
                 scan, redVars, call>>

InitDecide ==
  \E f \in {FormulaDecide, FormulaBump}, reuse \in BOOLEAN, phase \in BOOLEAN :
     InitFormula(f, "scalar",
                 [DefaultOptions EXCEPT !.restartreusetrail = reuse,
                                        !.phase = phase])

NextDecide ==
  \/ PropagateLiteral
  \/ kissat_decide
  \/ \E new_level \in 0 .. level - 1 : kissat_analyze(new_level)
  \/ kissat_restart
  \/ \E idx \in active : kissat_mark_eliminated_variable(idx)

SpecDecide == InitDecide /\ [][NextDecide]_vars

----------------------------------------------------------------------------
(* Propagation as the search and the probing call it: the loop over the    *)
(* trail followed by kissat_update_conflicts_and_trail (proplit.h).  call  *)
(* holds the propagation under way: fn names the instance of proplit.h     *)
(* (PROBING_PROPAGATION is defined in the probing instance alone), flush   *)
(* is the argument of that name and called tells that the update was made. *)

(* kissat_flush_trail (trail.c is not part of the sources): the units of   *)
(* the root level leave the trail.                                         *)
kissat_flush_trail(st) == [st EXCEPT !.trail = <<>>, !.propagate = 0]

(* A faulty kissat_update_conflicts_and_trail that takes every conflict    *)
(* for a conflict of the root level: C17 must notice it.                   *)
kissat_update_conflicts_and_trail_AnyLevel(probing, st, lvl, cnf, flush) ==
  IF cnf.kind # "none"
  THEN [st EXCEPT !.statistics.conflicts = IF probing THEN @ ELSE @ + 1,
                  !.inconsistent = TRUE]
  ELSE st

(* st is [statistics, inconsistent, trail, propagate]; solver->unflushed   *)
(* is the length of the trail at the root level.                           *)
kissat_update_conflicts_and_trail(probing, st, lvl, cnf, flush) ==
  IF cnf.kind # "none"
  THEN [st EXCEPT !.statistics.conflicts = IF probing THEN @ ELSE @ + 1,
                  !.inconsistent = IF lvl = 0 THEN TRUE ELSE @]
  ELSE IF flush /\ lvl = 0 /\ Len(st.trail) # 0
  THEN kissat_flush_trail(st)
  ELSE st

Propagations == {"kissat_search_propagate", "kissat_probing_propagate"}

(* No propagation is under way.                                            *)
Idle == call.called

(* The clauses kissat_probing_propagate can be told to ignore.             *)
Ignorable == {NULL_CLAUSE} \cup DOMAIN clauses

(* A propagation starts; the search flushes the trail, probing may, and    *)
(* probing alone can be given a clause to ignore.                          *)
StartPropagate(fn, flush, ignore) ==
  /\ Idle
  /\ ~inconsistent
  /\ conflict.kind = "none"
  /\ propagate < Len(trail)
  /\ fn = "kissat_search_propagate" => flush /\ ignore = NULL_CLAUSE
  /\ call' = [fn |-> fn, flush |-> flush, ignore |-> ignore,
              called |-> FALSE]
  /\ UNCHANGED <<cdbVars, asgVars, heurVars, envVars, ticks, garbage_left,
                 decisions_left, index_op, scan, queueVars, redVars>>

(* One iteration of the loop of the propagation under way.                 *)
PropagateStep ==
  /\ ~Idle
  /\ PropagateLiteral

(* The loop is over: conflicts and trail are updated.                      *)
UpdateConflictsAndTrail ==
  /\ ~Idle
  /\ conflict.kind # "none" \/ propagate = Len(trail)
  /\ LET st == kissat_update_conflicts_and_trail(
                 call.fn = "kissat_probing_propagate",
                 [statistics |-> statistics, inconsistent |-> inconsistent,
                  trail |-> trail, propagate |-> propagate],
                 level, conflict, call.flush)
     IN
     /\ statistics' = st.statistics
     /\ inconsistent' = st.inconsistent
     /\ trail' = st.trail
     /\ propagate' = st.propagate
  /\ call' = [call EXCEPT !.called = TRUE]
  /\ UNCHANGED <<cdbVars, values, assigned, level, conflict, heurVars,
                 envVars, ticks, garbage_left, decisions_left, index_op, scan,
                 queueVars, limits, last, first_reducible>>

InitSearch ==
  \E f \in {FormulaUnit, FormulaBinary, FormulaClash, FormulaSmall} :
    \E stbl \in BOOLEAN :
       InitFormula([f EXCEPT !.stable = stbl], "scalar", DefaultOptions)

NextSearch ==
  \/ \E fn \in Propagations, flush \in BOOLEAN, ignore \in Ignorable :
        StartPropagate(fn, flush, ignore)
  \/ PropagateStep
  \/ UpdateConflictsAndTrail
  \/ \E lit \in decs : Idle /\ ~inconsistent /\ kissat_internal_assume(lit)
  \/ \E new_level \in 0 .. level - 1 : Idle /\ Backtrack(new_level)

SpecSearch == InitSearch /\ [][NextSearch]_vars

----------------------------------------------------------------------------
(* Conflicts, decisions and restarts in focused mode.                      *)

InitFocus ==
  \E f \in {FormulaQueue, FormulaTseitin} :
    \E reuse \in BOOLEAN, tseitindec \in BOOLEAN :
       /\ InitSolverOver(f.active, f, "scalar",
                         [DefaultOptions EXCEPT
                            !.restartreusetrail = reuse,
                            !.tseitindec = tseitindec])
       /\ scan = NoScan
       /\ call = NoCall

NextFocus ==
  \/ PropagateLiteral
  \/ kissat_decide
  \/ \E new_level \in 0 .. level - 1 : kissat_analyze(new_level)
  \/ kissat_restart

SpecFocus == InitFocus /\ [][NextFocus]_vars

----------------------------------------------------------------------------
(* Random decision sequences: the search in either mode from the conflict  *)
(* count on at which the first sequence is due.                            *)

InitRandom ==
  \E stbl \in BOOLEAN, randecstable \in BOOLEAN, randeclength \in {1, 10} :
     /\ InitSolverOver(FormulaBurst.active,
                       [FormulaBurst EXCEPT !.stable = stbl], "scalar",
                       [DefaultOptions EXCEPT
                          !.randecstable = randecstable,
                          !.randeclength = randeclength])
     /\ scan = NoScan
     /\ call = NoCall

NextRandom ==
  \/ PropagateLiteral
  \/ kissat_decide
  \/ \E new_level \in 0 .. level - 1 : kissat_analyze(new_level)
  \/ kissat_restart

SpecRandom == InitRandom /\ [][NextRandom]_vars

----------------------------------------------------------------------------
(* Binary clauses arriving and leaving, each with its update of the        *)
(* binary implication index.                                               *)

BinaryWatchAt(ws, lit) ==
  {i \in DOMAIN ws : ws[i].binary /\ ws[i].lit = lit}

(* kissat_remove_binary_watch: the first binary watch of lit leaves the    *)
(* list and the order of the others is kept.                               *)
kissat_remove_binary_watch(ws, lit) ==
  LET at == BinaryWatchAt(ws, lit) IN
  IF at = {} THEN ws
  ELSE SubSeq(ws, 1, Min(at) - 1) \o SubSeq(ws, Min(at) + 1, Len(ws))

(* The clause (a | b) is watched and entered into the index.               *)
WatchBinary(a, b) ==
  /\ Len(binaries) < MaxBinaries
  /\ IDX(a) # IDX(b)
  /\ watches' = [[watches EXCEPT ![a] = Append(@, kissat_binary_watch(b))]
                    EXCEPT ![b] = Append(@, kissat_binary_watch(a))]
  /\ bin_index' = kissat_bin_impl_add(kissat_bin_impl_add(bin_index, a, b),
                                      b, a)
  /\ binaries' = Append(binaries, <<a, b>>)
  /\ index_op' = "add"
  /\ UNCHANGED <<clauses, delayed, asgVars, heurVars, envVars, ticks,
                 garbage_left, decisions_left, scan,
                 queueVars, redVars, call>>

(* The k-th binary clause is unwatched and taken out of the index.         *)
UnwatchBinary(k) ==
  /\ k \in DOMAIN binaries
  /\ LET a == binaries[k][1]
         b == binaries[k][2]
     IN
     /\ watches' = [[watches EXCEPT ![a] = kissat_remove_binary_watch(@, b)]
                       EXCEPT ![b] = kissat_remove_binary_watch(@, a)]
     /\ bin_index' = kissat_bin_impl_remove(
                       kissat_bin_impl_remove(bin_index, a, b), b, a)
  /\ binaries' = SubSeq(binaries, 1, k - 1)
                   \o SubSeq(binaries, k + 1, Len(binaries))
  /\ index_op' = "remove"
  /\ UNCHANGED <<clauses, delayed, asgVars, heurVars, envVars, ticks,
                 garbage_left, decisions_left, scan,
                 queueVars, redVars, call>>

RebuildIndex ==
  /\ bin_index' = kissat_rebuild_bin_index(watches)
  /\ index_op' = "rebuild"
  /\ UNCHANGED <<clauses, watches, binaries, delayed, asgVars, heurVars,
                 envVars,
                 ticks, garbage_left, decisions_left, scan,
                 queueVars, redVars, call>>

(* kissat_release_bin_index: the lists and the index are freed and the     *)
(* index is the null pointer; nothing happens when it was null.            *)
kissat_release_bin_index ==
  /\ bin_index' = NULL_INDEX
  /\ index_op' = "release"
  /\ UNCHANGED <<clauses, watches, binaries, delayed, asgVars, heurVars,
                 envVars,
                 ticks, garbage_left, decisions_left, scan,
                 queueVars, redVars, call>>

(* kissat_init_bin_index: an index of LITS empty lists is allocated when   *)
(* there is none; the watches are not read.                                *)
kissat_init_bin_index ==
  /\ bin_index = NULL_INDEX
  /\ bin_index' = [lit \in DOMAIN watches |-> <<>>]
  /\ index_op' = "init"
  /\ UNCHANGED <<clauses, watches, binaries, delayed, asgVars, heurVars,
                 envVars,
                 ticks, garbage_left, decisions_left, scan,
                 queueVars, redVars, call>>

InitBin == InitFormula(FormulaNone, "scalar", DefaultOptions)

NextBin ==
  \/ \E a \in {0, 1}, b \in {2, 3} : WatchBinary(a, b)
  \/ \E k \in 1 .. MaxBinaries : UnwatchBinary(k)
  \/ RebuildIndex
  \/ kissat_release_bin_index
  \/ kissat_init_bin_index

SpecBin == InitBin /\ [][NextBin]_vars

----------------------------------------------------------------------------
(* Calls of kissat_simd_find_non_false on its own.  The arguments are      *)
(* drawn when the behaviour starts and the call applies the function.      *)
(* The literals are those of two variables; the array holds one literal    *)
(* throughout except for one position.                                     *)

ScanValues ==
  {vals \in [Lits(2) -> {-1, 0, 1}] :
     \A v \in Vars(2) : vals[NOT(LIT(v))] = -vals[LIT(v)]}

ScanArray(fill, special, at, n) ==
  [i \in 1 .. n |-> IF i - 1 = at THEN special ELSE fill]

ScanStarts == {0, 2}
ScanCounts == {7, 8, 16, 17, MaxCount}
ScanOffsets == {0, 1, 4, 16, 32}

ScanEnvs ==
  {[path |-> path, base |-> base, pad |-> pad, ignore |-> NULL_CLAUSE] :
     path \in {"avx512"}, base \in {0, 14}, pad \in Pads("avx512")}
  \cup {[path |-> path, base |-> 0, pad |-> pad, ignore |-> NULL_CLAUSE] :
          path \in {"scalar", "avx2"}, pad \in Pads("scalar")}

InitScan ==
  /\ InitSolver(FormulaUnit, "scalar", DefaultOptions)
  /\ \E vals \in ScanValues, fill \in Lits(2), special \in {0, 3},
        start_idx \in ScanStarts, count \in ScanCounts,
        off \in ScanOffsets, env \in ScanEnvs :
       scan = [called |-> FALSE, values |-> vals,
               lits |-> ScanArray(fill, special, start_idx + off,
                                  start_idx + count),
               start_idx |-> start_idx, end_idx |-> start_idx + count,
               env |-> env, res |-> NotFound]

(* The call: the result is what kissat_simd_find_non_false returns and     *)
(* stores through its two output pointers.                                 *)
ScanCall ==
  /\ ~scan.called
  /\ scan' = [scan EXCEPT
                !.called = TRUE,
                !.res = kissat_simd_find_non_false(scan.env, scan.values,
                          scan.lits, scan.start_idx, scan.end_idx)]
  /\ UNCHANGED <<cdbVars, asgVars, heurVars, envVars, ticks, garbage_left,
                 decisions_left, index_op,
                 queueVars, redVars, call>>

NextScan == ScanCall

SpecSimd == InitScan /\ [][NextScan]_vars

----------------------------------------------------------------------------
(* Calls of kissat_simd_count_false and kissat_simd_all_false on their     *)
(* own, on arrays of the same kind.                                        *)

CountSizes == {0, 7, 8, 15, 16, 17, 24, MaxCount}
CountOffsets == {0, 2, 5, 16}

InitCount ==
  /\ InitSolver(FormulaUnit, "scalar", DefaultOptions)
  /\ \E vals \in ScanValues, fill \in Lits(2), special \in {0, 3},
        size \in CountSizes, off \in CountOffsets, env \in ScanEnvs :
       /\ env.base = 0
       /\ scan = [fn |-> "none", called |-> FALSE, values |-> vals,
                  lits |-> ScanArray(fill, special, off, size),
                  size |-> size, env |-> env, count |-> 0, all |-> FALSE]

CountFalseCall ==
  /\ ~scan.called
  /\ scan' = [scan EXCEPT
                !.fn = "kissat_simd_count_false",
                !.called = TRUE,
                !.count = kissat_simd_count_false(scan.env, scan.values,
                                                  scan.lits, scan.size)]
  /\ UNCHANGED <<cdbVars, asgVars, heurVars, envVars, ticks, garbage_left,
                 decisions_left, index_op,
                 queueVars, redVars, call>>

AllFalseCall ==
  /\ ~scan.called
  /\ scan' = [scan EXCEPT
                !.fn = "kissat_simd_all_false",
                !.called = TRUE,
                !.all = kissat_simd_all_false(scan.env, scan.values,
                                              scan.lits, scan.size)]
  /\ UNCHANGED <<cdbVars, asgVars, heurVars, envVars, ticks, garbage_left,
                 decisions_left, index_op,
                 queueVars, redVars, call>>

NextCount == CountFalseCall \/ AllFalseCall

SpecCount == InitCount /\ [][NextCount]_vars

----------------------------------------------------------------------------
(* One iteration of the while loop of PROPAGATE_LITERAL on its own: the    *)
(* watch, its clause and the values are drawn when the behaviour starts    *)
(* and the call applies VisitWatch to them.  The clause has the literals   *)
(* LIT(0) .. LIT(size-1) in this order; not_lit is the watched literal at  *)
(* position pos, false as the negation of the literal being propagated;    *)
(* the other watched literal has the value ov; the literals from position  *)
(* 2 on are false but for position nf1 (unassigned) and nf2 (true).  The   *)
(* propagated literal was assigned at the current decision level, 1.       *)

(* The largest clause a visit is given.                                    *)
MaxSize == 18

VisitSizes == {3, 4, 5, 8, 9, MaxSize}

VisitEnvs(size) ==
  IF size <= 8 THEN {[path |-> "scalar", base |-> 0, pad |-> <<0, 0, 0>>, ignore |-> NULL_CLAUSE]}
  ELSE {[path |-> path, base |-> 0, pad |-> <<0, 0, 0>>, ignore |-> NULL_CLAUSE] :
          path \in {"scalar", "avx2", "avx512"}}
       \cup {[path |-> "avx512", base |-> 14, pad |-> <<0, 0, 0>>, ignore |-> NULL_CLAUSE]}

VisitKinds(size) ==
  IF size <= 4 THEN {"binary", "garbage", "large"} ELSE {"large"}

VisitValue(size, pos, ov, nf1, nf2, v) ==
  IF v = pos THEN -1
  ELSE IF v = 1 - pos THEN ov
  ELSE IF v = nf1 THEN 0
  ELSE IF v = nf2 THEN 1
  ELSE -1

(* The literals assigned true, in the order of their variables.            *)
RECURSIVE VisitTrail(_, _, _)
VisitTrail(vals, v, size) ==
  IF v >= size THEN <<>>
  ELSE (IF vals[LIT(v)] > 0 THEN <<LIT(v)>>
        ELSE IF vals[LIT(v)] < 0 THEN <<NOT(LIT(v))>>
        ELSE <<>>) \o VisitTrail(vals, v + 1, size)

(* The scan state in front of the visit: one binary watch was kept.        *)
VisitState(size, pos, ov, nf1, nf2, searched, garbage, base) ==
  LET vals == [l \in Lits(size) |->
                 IF l % 2 = 0
                 THEN VisitValue(size, pos, ov, nf1, nf2, IDX(l))
                 ELSE - VisitValue(size, pos, ov, nf1, nf2, IDX(l))]
      c == [NewClause([i \in 1 .. size |-> LIT(i - 1)], base)
              EXCEPT !.searched = searched, !.garbage = garbage]
  IN [p |-> 2, q |-> <<kissat_binary_watch(NOT(LIT(1 - pos)))>>,
      values |-> vals,
      assigned |-> [v \in Vars(size) |->
                      IF vals[LIT(v)] = 0
                      THEN [level |-> 0, reason |-> NoReason]
                      ELSE [level |-> 1, reason |-> DecisionReason]],
      trail |-> VisitTrail(vals, 0, size),
      clauses |-> <<c>>, delayed |-> <<>>, ticks |-> 1,
      res |-> NoConflict, brk |-> FALSE]

InitVisit ==
  /\ InitSolverOver(Vars(FormulaUnit.nvars), FormulaUnit, "scalar",
                    DefaultOptions)
  /\ scan = NoScan
  /\ \E size \in VisitSizes, pos \in {0, 1}, ov \in {-1, 0, 1} :
     \E nf1 \in 2 .. size, nf2 \in 2 .. size, searched \in 2 .. size - 1 :
     \E kind \in VisitKinds(size), env \in VisitEnvs(size) :
       /\ nf1 <= nf2
       /\ call = [fn |-> "VisitWatch", called |-> FALSE, env |-> env,
                  blevel |-> 1, level |-> 1, not_lit |-> LIT(pos),
                  head |-> IF kind = "binary"
                           THEN kissat_binary_watch(LIT(1 - pos))
                           ELSE kissat_blocking_watch(LIT(1 - pos), 1),
                  s |-> VisitState(size, pos, ov, nf1, nf2, searched,
                                   kind = "garbage", env.base),
                  after |-> VisitState(size, pos, ov, nf1, nf2, searched,
                                       kind = "garbage", env.base)]

(* The call: after is the scan state the iteration leaves.                 *)
VisitCall ==
  /\ call.fn = "VisitWatch"
  /\ ~call.called
  /\ call' = [call EXCEPT
                !.called = TRUE,
                !.after = VisitWatch(call.env, call.blevel, call.level,
                                     call.not_lit, call.head, call.s)]
  /\ UNCHANGED <<cdbVars, asgVars, heurVars, envVars, ticks, garbage_left,
                 decisions_left, index_op, scan, queueVars, redVars>>

NextVisit == VisitCall

SpecVisit == InitVisit /\ [][NextVisit]_vars

----------------------------------------------------------------------------
(* Calls of kissat_decide_phase on its own: options, mode, switch count    *)
(* and the two phases of the variable are drawn when the behaviour starts. *)

PhaseOptions ==
  {[DefaultOptions EXCEPT !.forcephase = force, !.target = tg,
                          !.phasesaving = saving, !.phase = phase] :
     force \in BOOLEAN, tg \in 0 .. 2, saving \in BOOLEAN,
     phase \in BOOLEAN}

(* The values of statistics.switched: every residue of (switched >> 1) & 7 *)
(* and one count beyond 16.                                                *)
SwitchCounts == 0 .. 15 \cup {MaxSwitched}

InitPhase ==
  /\ InitSolverOver(Vars(2), FormulaNone, "scalar", DefaultOptions)
  /\ scan = NoScan
  /\ \E opts \in PhaseOptions, stbl \in BOOLEAN, sw \in SwitchCounts,
        tgt \in {-1, 0, 1}, sav \in {-1, 0, 1} :
       call = [fn |-> "kissat_decide_phase", called |-> FALSE,
               options |-> opts, stable |-> stbl, switched |-> sw,
               target |-> tgt, saved |-> sav, res |-> 0]

CallDecidePhase ==
  /\ call.fn = "kissat_decide_phase"
  /\ ~call.called
  /\ call' = [call EXCEPT
                !.called = TRUE,
                !.res = kissat_decide_phase(call.options, call.stable,
                          call.switched, [v \in {0} |-> call.target],
                          [v \in {0} |-> call.saved], 0)]
  /\ UNCHANGED <<cdbVars, asgVars, heurVars, envVars, ticks, garbage_left,
                 decisions_left, index_op, scan, queueVars, redVars>>

NextPhase == CallDecidePhase

SpecPhase == InitPhase /\ [][NextPhase]_vars

----------------------------------------------------------------------------
(* Calls of kissat_restarting on its own.                                  *)

RestartMargins == {0, 10, 12, MaxMargin}
GlueAverages == {0, 10, 11, 12, 20, 22, MaxGlue, 28}

InitRestarting ==
  /\ InitSolverOver(Vars(2), FormulaNone, "scalar", DefaultOptions)
  /\ scan = NoScan
  /\ \E on \in BOOLEAN, margin \in RestartMargins, lvl \in 0 .. 2,
        conflicts \in {0, 4, 5, 6}, stbl \in BOOLEAN,
        reluctant \in BOOLEAN, fast \in GlueAverages,
        slow \in {0, 10, 20, 25} :
       call = [fn |-> "kissat_restarting", called |-> FALSE,
               options |-> [DefaultOptions EXCEPT !.restart = on,
                                                  !.restartmargin = margin],
               level |-> lvl, conflicts |-> conflicts,
               limits |-> [reduce |-> [conflicts |-> 0],
                           restart |-> [conflicts |-> 5]],
               stable |-> stbl, reluctant |-> reluctant,
               fast |-> fast, slow |-> slow, res |-> FALSE]

CallRestarting ==
  /\ call.fn = "kissat_restarting"
  /\ ~call.called
  /\ call' = [call EXCEPT
                !.called = TRUE,
                !.res = kissat_restarting(call.options, call.level,
                          call.conflicts, call.limits, call.stable,
                          call.reluctant, D(call.fast), D(call.slow))]
  /\ UNCHANGED <<cdbVars, asgVars, heurVars, envVars, ticks, garbage_left,
                 decisions_left, index_op, scan, queueVars, redVars>>

NextRestarting == CallRestarting

SpecRestarting == InitRestarting /\ [][NextRestarting]_vars

(***************************************************************************)
(* Focused and stable restarts over the conflicts of a search: the         *)
(* counters and averages that kissat_restarting and kissat_restart read,   *)
(* with the conflicts, restarts, vivified clauses and decisions of a long  *)
(* run as starting points.                                                 *)
(***************************************************************************)
MaxAhead == 5

RestartIntervals == {1, 10, 1023}

(* The starting points: a restart in stable mode or without adaptation     *)
(* reads neither the vivified clauses nor the decisions, and the long      *)
(* interval is there for the clamp.                                        *)
IntervalStart(int, adaptive, stbl, restarts, slow, conflicts, vivified, per) ==
  /\ stbl => ~adaptive /\ int = 1 /\ restarts = 0 /\ slow = 10
  /\ ~adaptive => conflicts = 0 /\ vivified = 0 /\ per = 0
  /\ int = 1023 <=> restarts = 90
  /\ conflicts = 0 => vivified = 0 /\ per = 0
  /\ int = 10 => slow = 10

InitInterval ==
  /\ InitSolverOver(Vars(2), FormulaNone, "scalar", DefaultOptions)
  /\ scan = NoScan
  /\ \E int \in RestartIntervals, adaptive \in BOOLEAN, margin \in {10},
        stbl \in BOOLEAN, restarts \in {0, 90}, slow \in {0, 10},
        conflicts \in {0, 10001, 1500000, 2100000},
        vivified \in {0, 10001, 20000}, per \in {0, 2, 4} :
       /\ IntervalStart(int, adaptive, stbl, restarts, slow, conflicts,
                        vivified, per)
       /\ call = [fn |-> "kissat_restart",
               options |-> [DefaultOptions EXCEPT
                              !.restartint = int,
                              !.restartadaptive = adaptive,
                              !.restartmargin = margin],
               stable |-> stbl, level |-> 1,
               statistics |-> [conflicts |-> conflicts,
                               restarts |-> restarts,
                               vivified |-> vivified,
                               decisions |-> per * conflicts],
               limits |-> [reduce |-> [conflicts |-> 0],
                           restart |-> [conflicts |-> conflicts]],
               fast |-> 13, slow |-> slow,
               start |-> conflicts, before |-> restarts, restarted |-> -1,
               glue |-> DZero, vivify |-> DZero, decision |-> DZero,
               combined |-> DZero]

(* The search up to its next conflict: a decision, the conflict, the       *)
(* backjump by one level and the update of the fast glue average.          *)
IntervalConflict ==
  /\ call.fn = "kissat_restart"
  /\ call.statistics.conflicts < call.start + MaxAhead
  /\ \E fast \in {10, 13} :
       call' = [call EXCEPT
                  !.statistics.conflicts = @ + 1,
                  !.statistics.decisions = @ + 1,
                  !.level = 1,
                  !.fast = fast]
  /\ UNCHANGED <<cdbVars, asgVars, heurVars, envVars, ticks, garbage_left,
                 decisions_left, index_op, scan, queueVars, redVars>>

(* kissat_restart, called by the search when kissat_restarting holds.      *)
(* restarted is the number of conflicts at the last focused restart,       *)
(* before the number of restarts at the start, and glue, vivify, decision  *)
(* and combined are the factors of the message of the last focused         *)
(* restart: adaptive_restart_delta computes and reports them in a focused  *)
(* restart with restartadaptive on and returns before them without it.     *)
IntervalRestart ==
  /\ call.fn = "kissat_restart"
  /\ call.statistics.restarts < call.before + MaxRestarts
  /\ \E reluctant \in BOOLEAN :
       kissat_restarting(call.options, call.level,
                         call.statistics.conflicts, call.limits,
                         call.stable, reluctant, D(call.fast), D(call.slow))
  /\ LET stats == [call.statistics EXCEPT !.restarts = @ + 1] IN
     \E g \in {glue_factor(D(call.fast), D(call.slow))},
        v \in {vivify_factor(stats.vivified, stats.conflicts)},
        d \in {decision_factor(stats.decisions, stats.conflicts)},
        lvl \in 0 .. call.level,
        factored \in {~call.stable /\ call.options.restartadaptive} :
       call' = [call EXCEPT
                  !.statistics = stats,
                  !.level = lvl,
                  !.limits =
                     IF call.stable THEN @
                     ELSE kissat_update_focused_restart_limit(
                            call.options, stats, @, D(call.fast),
                            D(call.slow)),
                  !.restarted = IF call.stable THEN @ ELSE stats.conflicts,
                  !.glue = IF factored THEN g ELSE @,
                  !.vivify = IF factored THEN v ELSE @,
                  !.decision = IF factored THEN d ELSE @,
                  !.combined = IF factored THEN combined_factor(g, v, d)
                               ELSE @]
  /\ UNCHANGED <<cdbVars, asgVars, heurVars, envVars, ticks, garbage_left,
                 decisions_left, index_op, scan, queueVars, redVars>>

NextInterval == IntervalConflict \/ IntervalRestart

SpecInterval == InitInterval /\ [][NextInterval]_vars

----------------------------------------------------------------------------
----------------------------------------------------------------------------
(* Reduction of the learned clauses (reduce.c).  A reference is the        *)
(* position of the clause in the arena: the arena starts at reference 1,   *)
(* which is reference 0 of the source.                                     *)

ArenaStart == 1

(* tiers.h and clause.h are not part of the sources: the tier limits are   *)
(* the defaults of the options tier1 and tier2, and a clause counts its    *)
(* uses up to MAX_USED.                                                    *)
TIER1 == 2
TIER2 == 6
MAX_USED == 3

kissat_reducing(opts, stats, lim, cls) ==
  /\ opts.reduce
  /\ \E ref \in DOMAIN cls : cls[ref].redundant /\ ~cls[ref].garbage
  /\ ~(stats.conflicts < lim.reduce.conflicts)

(* The references from start on of the clauses that are the reason of a    *)
(* literal of the trail.                                                   *)
ReasonRefs(asg, trl, start) ==
  {asg[IDX(trl[i])].reason.ref :
     i \in {j \in DOMAIN trl :
              /\ asg[IDX(trl[j])].reason.kind = "clause"
              /\ asg[IDX(trl[j])].reason.ref >= start}}

(* kissat_flush_and_mark_reason_clauses and kissat_unmark_reason_clauses   *)
(* (collect.c is not part of the sources): the reason flag of the reason   *)
(* clauses from start on is set, and cleared again.                        *)
kissat_flush_and_mark_reason_clauses(cls, asg, trl, start) ==
  [ref \in DOMAIN cls |->
     IF ref \in ReasonRefs(asg, trl, start)
     THEN [cls[ref] EXCEPT !.reason = TRUE] ELSE cls[ref]]

(* A faulty kissat_unmark_reason_clauses that leaves the flags: C16 must   *)
(* notice it.                                                              *)
kissat_unmark_reason_clauses_Keep(cls, asg, trl, start) == cls

kissat_unmark_reason_clauses(cls, asg, trl, start) ==
  [ref \in DOMAIN cls |->
     IF ref \in ReasonRefs(asg, trl, start)
     THEN [cls[ref] EXCEPT !.reason = FALSE] ELSE cls[ref]]

(* A faulty FirstRedundant that takes the last redundant clause: C20 must  *)
(* notice it.                                                              *)
FirstRedundant_Last(cls, start) ==
  LET S == {ref \in DOMAIN cls : ref >= start /\ cls[ref].redundant} IN
  IF S = {} THEN INVALID_REF ELSE Max(S)

(* The first redundant clause from start on, INVALID_REF if there is none. *)
FirstRedundant(cls, start) ==
  LET S == {ref \in DOMAIN cls : ref >= start /\ cls[ref].redundant} IN
  IF S = {} THEN INVALID_REF ELSE Min(S)

(* A faulty test of the loop of collect_reducibles that takes reason       *)
(* clauses too: C15 must notice it.                                        *)
Reducible_TakeReasons(c) ==
  /\ c.redundant
  /\ ~c.garbage
  /\ ~(c.glue <= TIER1 /\ c.used > 0)
  /\ ~(c.glue <= Max({TIER1, TIER2}) /\ c.used >= MAX_USED - 1)

(* A faulty test that reads the uses after the decrement: C29 must notice  *)
(* it.                                                                     *)
Reducible_AfterDecrement(c) ==
  LET used == IF c.used > 0 THEN c.used - 1 ELSE 0 IN
  /\ c.redundant
  /\ ~c.garbage
  /\ ~c.reason
  /\ ~(c.glue <= TIER1 /\ used > 0)
  /\ ~(c.glue <= Max({TIER1, TIER2}) /\ used >= MAX_USED - 1)

(* The test of the loop of collect_reducibles: c is pushed on reds.        *)
Reducible(c) ==
  /\ c.redundant
  /\ ~c.garbage
  /\ ~c.reason
  /\ ~(c.glue <= TIER1 /\ c.used > 0)
  /\ ~(c.glue <= Max({TIER1, TIER2}) /\ c.used >= MAX_USED - 1)

(* A faulty loop that passes over reason clauses before it takes a use     *)
(* away: C31 must notice it.                                               *)
LoseUse_SpareReasons(c) ==
  IF c.redundant /\ ~c.garbage /\ ~c.reason /\ c.used > 0
  THEN [c EXCEPT !.used = @ - 1] ELSE c

(* if (used) c->used = used - 1, which the loop reaches for the redundant  *)
(* clauses that are not garbage, before it tests c->reason.                *)
LoseUse(c) ==
  IF c.redundant /\ ~c.garbage /\ c.used > 0
  THEN [c EXCEPT !.used = @ - 1] ELSE c

(* res is the value returned, reds the references pushed, in the order of  *)
(* the arena; the clauses visited lose one use.                            *)
collect_reducibles(cls, start_ref) ==
  LET redundant == FirstRedundant(cls, start_ref) IN
  IF redundant = INVALID_REF
  THEN [res |-> FALSE, first_reducible |-> INVALID_REF, clauses |-> cls,
        reds |-> <<>>]
  ELSE
    LET reds == SelectSeq([i \in 1 .. Len(cls) |-> i],
                          LAMBDA ref : ref >= redundant /\ Reducible(cls[ref]))
        aged == [ref \in DOMAIN cls |->
                   IF ref >= redundant THEN LoseUse(cls[ref]) ELSE cls[ref]]
    IN [res |-> reds # <<>>, first_reducible |-> redundant,
        clauses |-> aged, reds |-> reds]

(* A faulty rank with the size above the glue: C30 must notice it.         *)
RankBelow_SizeFirst(c, d) ==
  \/ Len(c.lits) > Len(d.lits)
  \/ Len(c.lits) = Len(d.lits) /\ c.glue > d.glue

(* The rank of a reducible is ~size | (~glue << 32): one rank is below     *)
(* another when its glue is larger, or the glue is the same and its size   *)
(* larger.                                                                 *)
RankBelow(c, d) ==
  \/ c.glue > d.glue
  \/ c.glue = d.glue /\ Len(c.lits) > Len(d.lits)

(* Where ref goes in the sorted stack: behind every rank not above its own. *)
RECURSIVE InsertRanked(_, _, _)
InsertRanked(cls, sorted, ref) ==
  IF sorted = <<>> THEN <<ref>>
  ELSE IF RankBelow(cls[ref], cls[Head(sorted)])
  THEN <<ref>> \o sorted
  ELSE <<Head(sorted)>> \o InsertRanked(cls, Tail(sorted), ref)

(* RADIX_STACK sorts by rank and keeps the order of equal ranks.           *)
RECURSIVE sort_reducibles(_, _)
sort_reducibles(cls, reds) ==
  IF reds = <<>> THEN <<>>
  ELSE InsertRanked(cls, sort_reducibles(cls, Front(reds)),
                    reds[Len(reds)])

(* The local target of mark_less_useful_clauses_as_garbage for the count   *)
(* of reductions and the size of the stack of candidates: size * fraction  *)
(* in doubles, converted to size_t.                                        *)
ReducePercent(high, low, reductions) ==
  The({IF DLess(l, h)
       THEN DSub(h, DDiv(DSub(h, l), log10(reductions + 9)))
       ELSE l : h \in {high}, l \in {low}})

ReduceTarget(opts, reductions, size) ==
  DTrunc(DMul(D(size),
              DDiv(ReducePercent(DMul(D(opts.reducehigh), Lit_0_1),
                                 DMul(D(opts.reducelow), Lit_0_1),
                                 reductions),
                   Lit_100)))

(* The first goal clauses of the sorted reds become garbage, where goal is  *)
(* the local target of the source.                                         *)
mark_less_useful_clauses_as_garbage(opts, stats, cls, reds) ==
  The({[ref \in DOMAIN cls |->
          IF \E p \in 1 .. Len(sorted) : p <= goal /\ sorted[p] = ref
          THEN [cls[ref] EXCEPT !.garbage = TRUE] ELSE cls[ref]] :
         sorted \in {reds},
         goal \in {ReduceTarget(opts, stats.reductions, Len(reds))}})

(* kissat_sparse_collect (collect.c is not part of the sources).  The      *)
(* reason flags are cleared and the watches of garbage clauses dropped;    *)
(* compaction removes the garbage clauses from the arena, keeps the order  *)
(* of the others and rewrites the references in watches, reasons and       *)
(* first_reducible.  st is [clauses, watches, assigned, first_reducible].  *)
kissat_sparse_collect(st, compact, start) ==
  LET unmarked == [ref \in DOMAIN st.clauses |->
                     IF ref >= start
                     THEN [st.clauses[ref] EXCEPT !.reason = FALSE]
                     ELSE st.clauses[ref]]
      flushed == [l \in DOMAIN st.watches |->
                    SelectSeq(st.watches[l],
                              LAMBDA w : w.binary
                                         \/ ~unmarked[w.ref].garbage)]
      kept == SelectSeq([i \in 1 .. Len(unmarked) |-> i],
                        LAMBDA ref : ~unmarked[ref].garbage)
      moved(ref) == CHOOSE i \in 1 .. Len(kept) : kept[i] = ref
      arena == [i \in 1 .. Len(kept) |-> unmarked[kept[i]]]
  IN
  IF ~compact
  THEN [st EXCEPT !.clauses = unmarked, !.watches = flushed]
  ELSE
    [clauses |-> arena,
     watches |-> [l \in DOMAIN flushed |->
                    [i \in 1 .. Len(flushed[l]) |->
                       IF flushed[l][i].binary THEN flushed[l][i]
                       ELSE [flushed[l][i] EXCEPT !.ref = moved(@)]]],
     assigned |-> [v \in DOMAIN st.assigned |->
                     IF st.assigned[v].reason.kind = "clause"
                     THEN [st.assigned[v] EXCEPT !.reason.ref = moved(@)]
                     ELSE st.assigned[v]],
     first_reducible |-> FirstRedundant(arena, ArenaStart)]

(* kissat_sqrt (kimits.c is not part of the sources): sqrt (count).        *)
kissat_sqrt(count) == sqrt(count)

(* (uint64_t) (delta * kissat_sqrt (reductions))                           *)
TimesSqrt(delta, reductions) ==
  DTrunc(DMul(D(delta), kissat_sqrt(reductions)))

(* target_scale for the overhead of the last reduction.                    *)
TargetScale(overhead) ==
  The({IF DLess(Lit_0_25, o) THEN Lit_1_15
       ELSE IF DLess(Lit_0_18, o) THEN Lit_1_08
       ELSE IF DLess(Lit_0_12, o) THEN Lit_1_03
       ELSE IF DLess(o, Lit_0_02) THEN Lit_0_95
       ELSE IF DLess(o, Lit_0_04) THEN Lit_0_98
       ELSE Lit_1 : o \in {overhead}})

(* if (new_scale < 0.7) new_scale = 0.7; if (new_scale > 1.5) ...          *)
ClampScale(new_scale) ==
  The({IF DLess(scale, Lit_0_7) THEN Lit_0_7
       ELSE IF DLess(Lit_1_5, scale) THEN Lit_1_5
       ELSE scale : scale \in {new_scale}})

(* search_time for the time between the end of the last reduction and the  *)
(* start of this one: if (search_time <= 0 || search_time < 0.001) ...     *)
SearchTime(between) ==
  The({IF DLeq(t, DZero) \/ DLess(t, Lit_0_001) THEN Lit_0_001 ELSE t :
         t \in {between}})

(* prev_duration / (search_time + prev_duration)                           *)
ReduceOverhead(prev_duration, search_time) ==
  The({DDiv(d, DAdd(search_time, d)) : d \in {prev_duration}})

(* The scale the adaptive branch computes from the overhead of the last    *)
(* reduction, in the doubles of the source.                                *)
AdaptedScale(opts, timing) ==
  The({ClampScale(
         DAdd(DMul(t.current_scale, Lit_0_85),
              DMul(DAdd(Lit_1,
                        DMul(DSub(TargetScale(
                                    ReduceOverhead(
                                      t.duration,
                                      SearchTime(DSub(t.start_time,
                                                      t.end_time)))),
                                  Lit_1),
                             DDiv(D(opts.reducefactor), Lit_100))),
                   Lit_0_15))) : t \in {timing}})

(* A faulty interval without the floor of 100: C33 must notice it.         *)
ReduceDeltaFloor_None(delta) == delta

(* if (delta < 100) delta = 100                                            *)
ReduceDeltaFloor(delta) == The({IF d < 100 THEN 100 ELSE d : d \in {delta}})

(* delta is the value returned, timing is last.reduce_timing afterwards.   *)
adaptive_reduce_delta(opts, stats, timing) ==
  The({The({[delta |->
               ReduceDeltaFloor(
                 IF stats.reductions > 0
                 THEN TimesSqrt(DTrunc(DMul(D(opts.reduceint), current_scale)),
                                stats.reductions)
                 ELSE DTrunc(DMul(D(opts.reduceint), current_scale))),
             timing |-> [t EXCEPT !.current_scale = current_scale]] :
              current_scale \in
                {IF /\ opts.reduceadaptive
                    /\ DLess(DZero, t.duration)
                    /\ stats.conflicts - t.prev_start_conflicts > 100
                 THEN AdaptedScale(opts, t)
                 ELSE t.current_scale}}) :
         t \in {timing}})

(* The clauses, watches, reasons and cursor after the sweep of             *)
(* kissat_reduce from start on.                                            *)
ReduceSweep(opts, stats, st, trl, compact, start) ==
  The({LET collected == [st EXCEPT !.clauses = found.clauses,
                                   !.first_reducible = found.first_reducible]
       IN
       IF found.res
       THEN kissat_sparse_collect(
              [collected EXCEPT !.clauses =
                 mark_less_useful_clauses_as_garbage(
                   opts, stats, found.clauses,
                   sort_reducibles(found.clauses, found.reds))],
              compact, start)
       ELSE IF compact
       THEN kissat_sparse_collect(collected, compact, start)
       ELSE [collected EXCEPT !.clauses =
               kissat_unmark_reason_clauses(found.clauses, st.assigned, trl,
                                            start)] :
         found \in {collect_reducibles(
                      kissat_flush_and_mark_reason_clauses(
                        st.clauses, st.assigned, trl, start), start)}})

(* kissat_reduce.  st is [clauses, watches, assigned, first_reducible,     *)
(* statistics, limits, last]; compact is the value of kissat_compacting    *)
(* and start_time and end_time are the two readings of                     *)
(* kissat_process_time.                                                    *)
kissat_reduce(opts, st, trl, compact, start_time, end_time) ==
  LET stats == [st.statistics EXCEPT !.reductions = @ + 1]
      start == IF compact THEN ArenaStart ELSE st.first_reducible
      arena == [clauses |-> st.clauses, watches |-> st.watches,
                assigned |-> st.assigned,
                first_reducible |-> st.first_reducible]
  IN
  The({[clauses |-> swept.clauses,
        watches |-> swept.watches,
        assigned |-> swept.assigned,
        first_reducible |-> swept.first_reducible,
        statistics |-> stats,
        limits |-> [st.limits EXCEPT
                      !.reduce.conflicts = stats.conflicts + next.delta],
        last |-> [reduce_timing |-> next.timing,
                  conflicts |-> [reduce |-> stats.conflicts]]] :
         swept \in {IF start # INVALID_REF
                    THEN ReduceSweep(opts, stats, arena, trl, compact, start)
                    ELSE arena},
         next \in {adaptive_reduce_delta(
                     opts, stats,
                     [st.last.reduce_timing EXCEPT
                        !.prev_start_conflicts =
                          st.last.reduce_timing.start_conflicts,
                        !.start_conflicts = stats.conflicts,
                        !.start_time = start_time,
                        !.end_time = end_time,
                        !.duration = DSub(end_time, start_time)])}})

----------------------------------------------------------------------------
(* The search around kissat_reduce.                                        *)

MaxReductions == 2
MaxDuration == 100

(* (x0 | x1 | x2) & (!x0 | x1 | x3) & (!x0 | x1) over x0 .. x4 in focused  *)
(* mode, and the clauses the search learns, in the order it learns them.   *)
FormulaReduce ==
  [nvars |-> 5,
   cls |-> << <<0, 2, 4>>, <<1, 2, 6>>, <<1, 2>> >>,
   base |-> 0,
   paths |-> {"scalar"}, stable |-> FALSE, decisions |-> 1,
   decs |-> {0}, active |-> Vars(5)]

LearnedClauses ==
  << [lits |-> <<1, 3, 8>>, glue |-> 7, used |-> 0],
     [lits |-> <<4, 6, 8>>, glue |-> 2, used |-> 1],
     [lits |-> <<5, 7, 9>>, glue |-> 4, used |-> 0],
     [lits |-> <<2, 4, 9, 6>>, glue |-> 3, used |-> 0] >>

(* kissat_new_redundant_clause (clause.c is not part of the sources): the  *)
(* clause is allocated at the end of the arena and watched by its first    *)
(* two literals, and it becomes the first reducible clause if there is     *)
(* none.                                                                   *)
kissat_new_redundant_clause(c) ==
  LET ref == Len(clauses) + 1 IN
  /\ Propagated
  /\ level = 0
  /\ clauses' = Append(clauses,
                       [NewClause(c.lits, 0) EXCEPT !.redundant = TRUE,
                                                    !.glue = c.glue,
                                                    !.used = c.used])
  /\ watches' =
       [[watches EXCEPT ![c.lits[1]] =
           Append(@, kissat_blocking_watch(c.lits[2], ref))]
          EXCEPT ![c.lits[2]] =
           Append(@, kissat_blocking_watch(c.lits[1], ref))]
  /\ first_reducible' =
       IF first_reducible = INVALID_REF THEN ref ELSE first_reducible
  /\ statistics' = [statistics EXCEPT !.learned = @ + 1]
  /\ UNCHANGED <<bin_index, binaries, delayed, asgVars, ticks, heurVars,
                 envVars,
                 garbage_left, decisions_left, index_op, scan, queueVars,
                 inconsistent, limits, last, call>>

(* The next clause of LearnedClauses is learned.                           *)
Learn ==
  /\ statistics.learned < Len(LearnedClauses)
  /\ kissat_new_redundant_clause(LearnedClauses[statistics.learned + 1])

(* The search has learned the first two clauses of LearnedClauses.         *)
Learned == statistics.learned >= 2

(* The conflicts of the search up to the next reduction, of which the      *)
(* count alone is kept.                                                    *)
SearchConflicts ==
  /\ Propagated
  /\ Learned
  /\ statistics.reductions < MaxReductions
  /\ statistics.conflicts < limits.reduce.conflicts
  /\ statistics' = [statistics EXCEPT !.conflicts = limits.reduce.conflicts]
  /\ UNCHANGED <<cdbVars, asgVars, ticks, heurVars, envVars, garbage_left,
                 decisions_left, index_op, scan, queueVars, inconsistent,
                 limits, last, first_reducible, call>>

ReduceState ==
  [clauses |-> clauses, watches |-> watches, assigned |-> assigned,
   first_reducible |-> first_reducible, statistics |-> statistics,
   limits |-> limits, last |-> last]

(* The search calls kissat_reduce when kissat_reducing holds after a       *)
(* propagation without conflict.                                           *)
Reducing ==
  /\ Propagated
  /\ ~inconsistent
  /\ statistics.reductions < MaxReductions
  /\ kissat_reducing(options, statistics, limits, clauses)

(* The readings of kissat_process_time of one reduction: it starts 10      *)
(* microseconds after the last one ended and takes 10 microseconds, or     *)
(* MaxDuration times as long.                                              *)
Durations == {1, MaxDuration}
StartTimes == {DAdd(last.reduce_timing.end_time, Seconds(1))}

(* call keeps of the reduction its arguments, the references of the reason *)
(* clauses it marked and whether it found clauses to reduce.               *)
Reduce(compact, start_time, end_time) ==
  /\ Reducing
  /\ \E st \in {kissat_reduce(options, ReduceState, trail, compact,
                               start_time, end_time)} :
     LET start == IF compact THEN ArenaStart ELSE first_reducible
         marked == IF start = INVALID_REF THEN {}
                   ELSE ReasonRefs(assigned, trail, start)
     IN
     /\ call' = [fn |-> "kissat_reduce", called |-> TRUE,
                 compact |-> compact, start |-> start, marked |-> marked,
                 reducible |->
                   /\ start # INVALID_REF
                   /\ collect_reducibles(
                        kissat_flush_and_mark_reason_clauses(
                          clauses, assigned, trail, start), start).res]
     /\ clauses' = st.clauses
     /\ watches' = st.watches
     /\ assigned' = st.assigned
     /\ first_reducible' = st.first_reducible
     /\ statistics' = st.statistics
     /\ limits' = st.limits
     /\ last' = st.last
  /\ UNCHANGED <<bin_index, binaries, delayed, values, trail, propagate, level,
                 conflict, ticks, heurVars, envVars, garbage_left,
                 decisions_left, index_op, scan, queueVars, inconsistent>>

InitReduce ==
  \E reduceadaptive \in BOOLEAN :
     InitFormula(FormulaReduce, "scalar",
                 [DefaultOptions EXCEPT !.reduceadaptive = reduceadaptive])

NextReduce ==
  \/ PropagateLiteral
  \/ \E lit \in decs : Learned /\ kissat_internal_assume(lit)
  \/ \E new_level \in 0 .. level - 1 : Backtrack(new_level)
  \/ \E ref \in DOMAIN clauses :
        Learned /\ ~clauses[ref].redundant /\ MarkGarbage(ref)
  \/ Learn
  \/ SearchConflicts
  \/ \E compact \in BOOLEAN, start_time \in StartTimes, d \in Durations :
        Reduce(compact, start_time, DAdd(start_time, Seconds(d)))

SpecReduce == InitReduce /\ [][NextReduce]_vars

----------------------------------------------------------------------------
(* The sweep of kissat_reduce on its own: the arena with the reason marks  *)
(* set, the cursor, the options and the count of reductions are drawn when *)
(* the behaviour starts, and one call collects, sorts and marks.           *)

MaxArena == 4

(* Clauses of every kind the loop of collect_reducibles tells apart:       *)
(* irredundant, garbage, reason, protected by a tier with the uses it has  *)
(* before the decrement, and candidates of different glue and size.        *)
SweepClause(redundant, garbage, reason, glue, used, size) ==
  [NewClause([i \in 1 .. size |-> 2 * (i - 1)], 0) EXCEPT
     !.redundant = redundant, !.garbage = garbage, !.reason = reason,
     !.glue = glue, !.used = used]

SweepClauses ==
  {SweepClause(FALSE, FALSE, FALSE, 0, 0, 3),
   SweepClause(TRUE, TRUE, FALSE, 7, 0, 4),
   SweepClause(TRUE, FALSE, TRUE, 7, 1, 4),
   SweepClause(TRUE, FALSE, FALSE, TIER1, 1, 3),
   SweepClause(TRUE, FALSE, FALSE, TIER2, MAX_USED - 1, 4),
   SweepClause(TRUE, FALSE, FALSE, TIER2, 1, 4),
   SweepClause(TRUE, FALSE, FALSE, TIER1, 0, 3),
   SweepClause(TRUE, FALSE, FALSE, 7, MAX_USED, 3),
   SweepClause(TRUE, FALSE, FALSE, 7, 0, 4)}

(* reducelow below reducehigh, and the two equal.                          *)
SweepOptions ==
  {DefaultOptions, [DefaultOptions EXCEPT !.reducelow = 900]}

InitSweep ==
  /\ InitSolverOver(Vars(FormulaUnit.nvars), FormulaUnit, "scalar",
                    DefaultOptions)
  /\ scan = NoScan
  /\ \E cls \in [1 .. MaxArena -> SweepClauses], opts \in SweepOptions :
     \E reductions \in 1 .. 2, start \in 1 .. 2 :
       call = [fn |-> "kissat_reduce", called |-> FALSE, opts |-> opts,
               reductions |-> reductions, start |-> start, cls |-> cls,
               reds |-> <<>>, sorted |-> <<>>, after |-> cls]

(* The call: reds is the stack collect_reducibles fills, sorted the stack  *)
(* after sort_reducibles, after the arena the marking leaves.              *)
SweepCall ==
  /\ call.fn = "kissat_reduce"
  /\ ~call.called
  /\ \E found \in {collect_reducibles(call.cls, call.start)} :
     \E sorted \in {sort_reducibles(found.clauses, found.reds)} :
       call' = [call EXCEPT
                  !.called = TRUE,
                  !.reds = found.reds,
                  !.sorted = sorted,
                  !.after =
                    IF found.res
                    THEN mark_less_useful_clauses_as_garbage(
                           call.opts, [reductions |-> call.reductions],
                           found.clauses, sorted)
                    ELSE found.clauses]
  /\ UNCHANGED <<cdbVars, asgVars, heurVars, envVars, ticks, garbage_left,
                 decisions_left, index_op, scan, queueVars, redVars>>

NextSweep == SweepCall

SpecSweep == InitSweep /\ [][NextSweep]_vars

----------------------------------------------------------------------------
(* find_tseitin_preferred_variable on its own: a queue of MaxQueue         *)
(* variables in the order of their indices, the cursor and the set of      *)
(* unassigned variables are drawn when the behaviour starts.               *)

MaxQueue == 1003

(* The variables that may be unassigned: at the front of the queue, more   *)
(* than 1000 steps in front of its end, in the middle, and at the end      *)
(* where the Tseitin level is not 0.                                       *)
TseitinFree == {0, 2, 3, 4, 500, 1000, 1001, MaxQueue - 1}
TseitinCursors == {1, 500, 1001, MaxQueue - 1}

(* The links and the queue after MaxQueue variables were enqueued.         *)
LongLinks ==
  [v \in 0 .. MaxQueue - 1 |->
     [prev |-> IF v = 0 THEN DISCONNECT ELSE v - 1,
      next |-> IF v = MaxQueue - 1 THEN DISCONNECT ELSE v + 1,
      stamp |-> v + 1]]

LongQueue(cursor) ==
  [first |-> 0, last |-> MaxQueue - 1, stamp |-> MaxQueue,
   search |-> [idx |-> cursor, stamp |-> cursor + 1]]

(* The variables of free are unassigned, the others true.                  *)
LongValues(free) ==
  [l \in 0 .. 2 * MaxQueue - 1 |->
     IF IDX(l) \in free THEN 0 ELSE IF l % 2 = 0 THEN 1 ELSE -1]

InitTseitin ==
  /\ InitSolverOver(Vars(2), FormulaNone, "scalar", DefaultOptions)
  /\ scan = NoScan
  /\ \E free \in SUBSET TseitinFree, cursor \in TseitinCursors :
       /\ free # {}
       /\ call = [fn |-> "find_tseitin_preferred_variable",
                  called |-> FALSE,
                  options |-> [DefaultOptions EXCEPT !.tseitindec = TRUE],
                  free |-> free,
                  queue |-> LongQueue(cursor),
                  res |-> INVALID_IDX,
                  after |-> LongQueue(cursor)]

TseitinCall ==
  /\ call.fn = "find_tseitin_preferred_variable"
  /\ ~call.called
  /\ \E r \in {find_tseitin_preferred_variable(
                 call.options, LongLinks, call.queue,
                 LongValues(call.free), DOMAIN LongLinks)} :
       call' = [call EXCEPT !.called = TRUE, !.res = r.res,
                            !.after = r.queue]
  /\ UNCHANGED <<cdbVars, asgVars, heurVars, envVars, ticks, garbage_left,
                 decisions_left, index_op, scan, queueVars, redVars>>

NextTseitin == TseitinCall

SpecTseitin == InitTseitin /\ [][NextTseitin]_vars

----------------------------------------------------------------------------
(* adaptive_reduce_delta on its own: the options, the counters and the     *)
(* timing of the last reduction are the inputs.                            *)

ReduceIntervals == {2, 50, 100, 1000}
ReduceScales == {Lit_0_7, Lit_1, Lit_1_5}

InitDelta ==
  /\ InitSolverOver(Vars(2), FormulaNone, "scalar", DefaultOptions)
  /\ scan = NoScan
  /\ \E reduceint \in ReduceIntervals, reduceadaptive \in BOOLEAN,
        current_scale \in ReduceScales, reductions \in 1 .. MaxReductions,
        conflicts \in {100, 1000}, duration \in {0, 1, MaxDuration} :
       call = [fn |-> "adaptive_reduce_delta", called |-> FALSE,
               options |-> [DefaultOptions EXCEPT
                              !.reduceint = reduceint,
                              !.reduceadaptive = reduceadaptive],
               statistics |-> [conflicts |-> conflicts,
                               reductions |-> reductions,
                               restarts |-> 0, learned |-> 0],
               timing |-> [NoTiming EXCEPT
                             !.current_scale = current_scale,
                             !.start_conflicts = conflicts,
                             !.start_time = Seconds(1),
                             !.end_time = Seconds(1 + duration),
                             !.duration = DSub(Seconds(1 + duration),
                                               Seconds(1))],
               res |-> 0]

CallReduceDelta ==
  /\ call.fn = "adaptive_reduce_delta"
  /\ ~call.called
  /\ LET next == adaptive_reduce_delta(call.options, call.statistics,
                                       call.timing) IN
     call' = [call EXCEPT !.called = TRUE, !.res = next.delta,
                          !.timing = next.timing]
  /\ UNCHANGED <<cdbVars, asgVars, heurVars, envVars, ticks, garbage_left,
                 decisions_left, index_op, scan, queueVars, redVars>>

NextDelta == CallReduceDelta

SpecDelta == InitDelta /\ [][NextDelta]_vars

----------------------------------------------------------------------------
(* Properties of propagation.                                              *)

Refs == DOMAIN clauses
Live(ref) == ~clauses[ref].garbage
Watched0(ref) == L(clauses[ref].lits, 0)
Watched1(ref) == L(clauses[ref].lits, 1)
LitsOf(ref) == {clauses[ref].lits[i] : i \in DOMAIN clauses[ref].lits}
Satisfied(ref) == \E l \in LitsOf(ref) : values[l] > 0
BinaryWatches ==
  UNION {{<<l, watches[l][i].lit>> :
            i \in {j \in DOMAIN watches[l] : watches[l][j].binary}} :
         l \in DOMAIN watches}

(* C1: when the propagation loop has returned success (every trail         *)
(* literal scanned, no conflict), no clause that is not garbage and no     *)
(* binary clause has both watched literals false.                          *)
C1_NoFalseWatchPairOnSuccess ==
  Propagated =>
    /\ \A ref \in Refs :
         Live(ref) => ~(values[Watched0(ref)] < 0 /\ values[Watched1(ref)] < 0)
    /\ \A b \in BinaryWatches : ~(values[b[1]] < 0 /\ values[b[2]] < 0)

(* A scan has returned a large clause of more than three literals as       *)
(* conflict, and both its watched literals are false.                      *)
C1_Witness ==
  /\ conflict.kind = "clause"
  /\ Len(clauses[conflict.ref].lits) > 3
  /\ values[Watched0(conflict.ref)] < 0
  /\ values[Watched1(conflict.ref)] < 0

(* C2: when the scans of all trail literals have completed without a       *)
(* conflict, every clause that is not garbage is satisfied or has both     *)
(* watched literals unassigned, none is left with exactly one unassigned   *)
(* literal and all others false, and the clause (x0 | x1 | x2) with x0 and *)
(* x1 false at the root has x2 forced true at level 0 without a decision.  *)
C2_SatisfiedOrUnassignedOnSuccess ==
  Propagated =>
    /\ \A ref \in Refs :
         Live(ref) =>
           /\ \/ Satisfied(ref)
              \/ values[Watched0(ref)] = 0 /\ values[Watched1(ref)] = 0
           /\ ~(/\ Cardinality({l \in LitsOf(ref) : values[l] = 0}) = 1
                /\ \A l \in LitsOf(ref) : values[l] <= 0)
    /\ \A b \in BinaryWatches :
         \/ values[b[1]] > 0 \/ values[b[2]] > 0
         \/ values[b[1]] = 0 /\ values[b[2]] = 0
    /\ (Len(clauses) = 1 /\ LitsOf(1) = {0, 2, 4} /\ values[0] < 0
        /\ values[2] < 0 /\ assigned[0].level = 0 /\ assigned[1].level = 0)
         => values[4] > 0 /\ assigned[2].level = 0

(* Root-level propagation of (x0 | x1 | x2) & !x0 & !x1 has completed:     *)
(* x2 is true at level 0 with the clause as reason and no decision taken.  *)
C2_Witness ==
  /\ Propagated
  /\ level = 0
  /\ decisions_left = MaxDecisions
  /\ Len(clauses) = 1 /\ LitsOf(1) = {0, 2, 4}
  /\ trail = <<1, 3, 4>>
  /\ assigned[2].reason = ClauseReason(1)

TrueLit(v) == IF values[LIT(v)] > 0 THEN LIT(v) ELSE NOT(LIT(v))

(* C3: every literal forced by a clause (or a binary clause) has all       *)
(* other literals of its reason false at levels not above its own.         *)
C3_ReasonLiteralsFalseBelow ==
  \A v \in DOMAIN assigned :
    values[LIT(v)] # 0 =>
      LET a == assigned[v] IN
      /\ a.reason.kind = "clause" =>
           /\ TrueLit(v) \in LitsOf(a.reason.ref)
           /\ \A l \in LitsOf(a.reason.ref) \ {TrueLit(v)} :
                values[l] < 0 /\ assigned[IDX(l)].level <= a.level
      /\ a.reason.kind = "binary" =>
           /\ values[a.reason.lit] < 0
           /\ assigned[IDX(a.reason.lit)].level <= a.level
           /\ <<a.reason.lit, TrueLit(v)>> \in BinaryWatches

(* A literal has been forced by a clause of more than three literals at a  *)
(* decision level above 0.                                                 *)
C3_Witness ==
  \E v \in DOMAIN assigned :
    /\ values[LIT(v)] # 0
    /\ assigned[v].reason.kind = "clause"
    /\ Len(clauses[assigned[v].reason.ref].lits) > 3
    /\ assigned[v].level > 0

(* C4: in every state between scans, every large watch in watches[l]       *)
(* whose clause is not garbage has l as lits[0] or lits[1] of the clause.  *)
C4_WatchedLiteralIsFirstOrSecond ==
  \A l \in DOMAIN watches :
    \A i \in DOMAIN watches[l] :
      LET w == watches[l][i] IN
      (~w.binary /\ Live(w.ref)) => l \in {Watched0(w.ref), Watched1(w.ref)}

(* A watch of a clause of more than three literals was moved to a          *)
(* replacement found behind position 2, and a later scan ended in a        *)
(* conflict.                                                               *)
C4_Witness ==
  /\ conflict.kind # "none"
  /\ \E ref \in Refs :
       /\ clauses[ref].searched > 2
       /\ \E i \in DOMAIN watches[Watched1(ref)] :
            watches[Watched1(ref)][i] =
              kissat_blocking_watch(Watched0(ref), ref)

----------------------------------------------------------------------------
(* Properties of the literal scan.                                         *)

(* The positions of the range whose literal is not false.                  *)
NonFalse(vals, lits, start_idx, end_idx) ==
  {i \in start_idx .. end_idx - 1 : vals[L(lits, i)] >= 0}

(* C5: on every dispatch path a call of kissat_simd_find_non_false on the  *)
(* range [start_idx, end_idx) returns true with the smallest index of the  *)
(* range whose literal is not false, and that literal, and returns false   *)
(* exactly when the range holds no such index.                             *)
C5_FindsFirstNonFalse ==
  scan.called =>
    LET S == NonFalse(scan.values, scan.lits, scan.start_idx, scan.end_idx) IN
    /\ scan.res.found = (S # {})
    /\ scan.res.found =>
         /\ scan.res.idx = Min(S)
         /\ scan.res.lit = L(scan.lits, scan.res.idx)

(* The positions of the array whose literal is false.                      *)
FalsePositions(vals, lits, size) ==
  {i \in 0 .. size - 1 : vals[L(lits, i)] < 0}

CountCalled == scan.called /\ scan.fn = "kissat_simd_count_false"
AllCalled == scan.called /\ scan.fn = "kissat_simd_all_false"

(* C21: on every dispatch path and for every size a call of                *)
(* kissat_simd_count_false returns the number of positions below size      *)
(* whose literal is false.                                                 *)
C21_CountsFalseLiterals ==
  CountCalled =>
    scan.count = Cardinality(FalsePositions(scan.values, scan.lits,
                                            scan.size))

(* The count is exact on the scalar path and for sizes below 16, where no  *)
(* vector block is read.                                                   *)
C21_HoldsWithoutVectorBlock ==
  (CountCalled /\ (scan.env.path = "scalar" \/ scan.size < 16)) =>
    scan.count = Cardinality(FalsePositions(scan.values, scan.lits,
                                            scan.size))

(* A call on sixteen literals or more on a vector path.                    *)
C21_Witness ==
  /\ CountCalled
  /\ scan.size >= 16
  /\ scan.env.path = "avx2"
  /\ scan.count # Cardinality(FalsePositions(scan.values, scan.lits,
                                             scan.size))

(* C22: on every dispatch path and for every size a call of                *)
(* kissat_simd_all_false returns true exactly when the literal at every    *)
(* position below size is false.                                           *)
C22_AllFalseIffEveryLiteralFalse ==
  AllCalled =>
    (scan.all <=> Cardinality(FalsePositions(scan.values, scan.lits,
                                             scan.size)) = scan.size)

(* The answer is right on the scalar path and for sizes below 16.          *)
C22_HoldsWithoutVectorBlock ==
  (AllCalled /\ (scan.env.path = "scalar" \/ scan.size < 16)) =>
    (scan.all <=> Cardinality(FalsePositions(scan.values, scan.lits,
                                             scan.size)) = scan.size)

(* Sixteen false literals or more for which the AVX2 path answers false.   *)
C22_Witness ==
  /\ AllCalled
  /\ scan.size >= 16
  /\ scan.env.path = "avx2"
  /\ Cardinality(FalsePositions(scan.values, scan.lits, scan.size))
       = scan.size
  /\ ~scan.all

----------------------------------------------------------------------------
(* Properties of one iteration of the scan.                                *)

VisitCalled == call.fn = "VisitWatch" /\ call.called
VisitedClause == call.s.clauses[1]
VisitedOther ==
  IF L(VisitedClause.lits, 0) = call.not_lit
  THEN L(VisitedClause.lits, 1) ELSE L(VisitedClause.lits, 0)

(* The first position whose literal is not false in the order searched,   *)
(* ..., size-1, 2, ..., searched-1, or -1 when there is none.              *)
FirstNonFalseFrom(vals, lits, searched) ==
  LET behind == NonFalse(vals, lits, searched, Len(lits))
      before == NonFalse(vals, lits, 2, searched)
  IN IF behind # {} THEN Min(behind)
     ELSE IF before # {} THEN Min(before)
     ELSE -1

(* The visit searches a replacement: a large watch of a live clause whose  *)
(* blocking literal and other watched literal are not true.                *)
Searching ==
  /\ VisitCalled
  /\ ~call.head.binary
  /\ ~VisitedClause.garbage
  /\ call.s.values[call.head.lit] <= 0
  /\ call.s.values[VisitedOther] <= 0

(* The visit moved the watch to the first literal that is not false, or    *)
(* moved nothing when every literal from position 2 on is false.           *)
InstallsFirstNonFalse ==
  LET lits == VisitedClause.lits
      r == FirstNonFalseFrom(call.s.values, lits, VisitedClause.searched)
  IN IF r >= 0
     THEN /\ L(call.after.clauses[1].lits, 1) = L(lits, r)
          /\ call.after.clauses[1].searched = r
          /\ call.after.delayed =
               <<[lit |-> L(lits, r),
                  watch |-> kissat_blocking_watch(VisitedOther, 1)]>>
          /\ call.after.q = call.s.q
     ELSE /\ call.after.clauses = call.s.clauses
          /\ call.after.delayed = <<>>
          /\ call.after.q = Append(call.s.q, call.head)

(* C23: when the other watched literal of a large clause is not true the   *)
(* new watch is the first literal that is not false in the order           *)
(* lits[searched], ..., lits[size-1], lits[2], ..., lits[searched-1] and   *)
(* searched becomes its index, on the ternary path, the unrolled path and  *)
(* the SIMD path; when there is no such literal no watch is moved.         *)
C23_NewWatchIsFirstNonFalse == Searching => InstallsFirstNonFalse

(* The same off the AVX-512 path.                                          *)
C23_HoldsOffAvx512 ==
  (Searching /\ call.env.path # "avx512") => InstallsFirstNonFalse

(* An 18-literal clause on the AVX-512 path whose watch is not moved to    *)
(* the first literal that is not false.                                    *)
C23_Witness ==
  /\ Searching
  /\ Len(VisitedClause.lits) > 8
  /\ call.env.path = "avx512"
  /\ ~InstallsFirstNonFalse

----------------------------------------------------------------------------
(* Properties of the binary implication index.                             *)

(* How often m is an entry of a list of literals.                          *)
Occurrences(list, m) == Cardinality({i \in DOMAIN list : list[i] = m})

(* The index of l holds the blocking literals of the binary watches of l,  *)
(* each as often as it is watched.                                         *)
IndexMatches(l) ==
  /\ bin_index # NULL_INDEX
  /\ \A m \in DOMAIN watches :
       Occurrences(bin_index[l], m) = Cardinality(BinaryWatchAt(watches[l], m))

(* C6: after any sequence of rebuilds, additions and removals, each        *)
(* together with the push or removal of the binary watch, the entries of   *)
(* bin_index[l] are for every literal l the blocking literals of the       *)
(* binary watches of watches[l], as multisets.                             *)
C6_IndexEqualsBinaryWatches ==
  bin_index # NULL_INDEX => \A l \in DOMAIN watches : IndexMatches(l)

(* The clause (a | b) is a binary clause of the formula.                   *)
BinaryClause(a, b) ==
  \E k \in DOMAIN binaries : binaries[k] \in {<<a, b>>, <<b, a>>}

(* C7 as stated: after kissat_rebuild_bin_index every entry m of           *)
(* bin_index[l] has the binary clause (!l | m) in the formula.             *)
C7_EntryIsImpliedByLiteral ==
  (index_op = "rebuild" /\ bin_index # NULL_INDEX) =>
    \A l \in DOMAIN bin_index :
      \A i \in DOMAIN bin_index[l] : BinaryClause(NOT(l), bin_index[l][i])

(* What holds instead: after kissat_rebuild_bin_index every entry m of     *)
(* bin_index[l] has the binary clause (l | m) in the formula, the clause   *)
(* that forces m when l is assigned false.                                 *)
C7_EntryIsImpliedByNegation ==
  (index_op = "rebuild" /\ bin_index # NULL_INDEX) =>
    \A l \in DOMAIN bin_index :
      \A i \in DOMAIN bin_index[l] : BinaryClause(l, bin_index[l][i])

(* The index was rebuilt while (x0 | x1) was the only binary clause: x1    *)
(* is entered under x0 and x0 under x1.                                    *)
C7_Witness ==
  /\ index_op = "rebuild"
  /\ bin_index # NULL_INDEX
  /\ binaries = << <<0, 2>> >>
  /\ bin_index[0] = <<2>>
  /\ bin_index[2] = <<0>>

(* The outcome of kissat_propagate_binary_index for the next trail         *)
(* literal, called with the level of that literal.                         *)
IndexOutcome ==
  LET lit == trail[propagate + 1] IN
  kissat_propagate_binary_index(
    bin_index,
    [values |-> values, assigned |-> assigned, trail |-> trail,
     ticks |-> 0, res |-> NoConflict],
    assigned[IDX(lit)].level, NOT(lit))

(* The outcome of PROPAGATE_LITERAL for the next trail literal on the      *)
(* binary watches of its negation alone.                                   *)
BinaryWatchOutcome ==
  LET lit == trail[propagate + 1] IN
  PROPAGATE_LITERAL(
    [path |-> simd, base |-> 0, pad |-> [i \in 1 .. 3 |-> 0], ignore |-> NULL_CLAUSE],
    [watches EXCEPT ![NOT(lit)] = SelectSeq(@, LAMBDA w : w.binary)],
    lit)

(* C8: whenever a trail literal waits for propagation and the index of     *)
(* its negation matches the binary watches, kissat_propagate_binary_index  *)
(* forces the same literals in the same order, with the same reasons and   *)
(* levels, and returns the same conflict or none, as PROPAGATE_LITERAL     *)
(* does on those binary watches.                                           *)
C8_IndexPropagationAgrees ==
  (/\ conflict.kind = "none"
   /\ propagate < Len(trail)
   /\ IndexMatches(NOT(trail[propagate + 1]))) =>
    /\ IndexOutcome.trail = BinaryWatchOutcome.trail
    /\ IndexOutcome.values = BinaryWatchOutcome.values
    /\ IndexOutcome.assigned = BinaryWatchOutcome.assigned
    /\ IndexOutcome.res = BinaryWatchOutcome.res

(* A literal waits for propagation whose index entries force a literal     *)
(* and then run into a conflict.                                           *)
C8_Witness ==
  /\ conflict.kind = "none"
  /\ propagate < Len(trail)
  /\ IndexMatches(NOT(trail[propagate + 1]))
  /\ Len(IndexOutcome.trail) > Len(trail)
  /\ IndexOutcome.res.kind = "binary"

----------------------------------------------------------------------------
(* Properties of decisions in stable mode.                                 *)

(* C9: in stable mode with no random decision sequence, the variable       *)
(* kissat_next_decision_variable returns is unassigned and no unassigned   *)
(* variable has a larger score.                                            *)
C9_DecisionHasLargestScore ==
  (Propagated /\ stable /\ randec = 0 /\ Unassigned # {}) =>
    \A d \in NextDecisions :
       /\ d.res \in Unassigned
       /\ \A v \in Unassigned : scores[d.res] >= scores[v]

(* What holds of C9: without the reuse of the trail, where kissat_restart   *)
(* does not ask for the next decision variable, the decision is an         *)
(* unassigned variable of largest score.                                   *)
C9_HoldsWithoutReuse ==
  ~options.restartreusetrail => C9_DecisionHasLargestScore

(* After a restart that reused no level the cache is valid and holds an    *)
(* unassigned variable of smaller score than another unassigned variable.  *)
C9_Witness ==
  /\ stable
  /\ Propagated
  /\ randec = 0
  /\ level = 0
  /\ statistics.restarts > 0
  /\ decision_cache_valid
  /\ decision_cache_size > 0
  /\ values[LIT(decision_cache[1])] = 0
  /\ \E v \in Unassigned : scores[v] > scores[decision_cache[1]]

(* The variables a step unassigns that the decision cache held when they   *)
(* were unassigned: a backtrack leaves the entries and their number as     *)
(* they were, and the backtrack of kissat_restart comes after its read of  *)
(* the cache.                                                              *)
UnassignedCached ==
  {v \in {decision_cache'[i] : i \in 1 .. decision_cache_size'} :
     values[LIT(v)] # 0 /\ values'[LIT(v)] = 0}

(* A step in which kissat_next_decision_variable may read the cache: a     *)
(* decision or a restart in stable mode.                                   *)
CacheRead ==
  /\ stable
  /\ \/ level' = level + 1
     \/ statistics'.restarts = statistics.restarts + 1

----------------------------------------------------------------------------
(* Properties of decisions and restarts in focused mode.                   *)

(* The first unassigned variable met from idx on along prev.               *)
RECURSIVE FirstUnassignedFrom(_, _, _)
FirstUnassignedFrom(lnk, vals, idx) ==
  IF DISCONNECTED(idx) THEN INVALID_IDX
  ELSE IF vals[LIT(idx)] = 0 THEN idx
  ELSE FirstUnassignedFrom(lnk, vals, lnk[idx].prev)

(* The variables behind idx in the queue, following next.                  *)
RECURSIVE Following(_, _)
Following(lnk, idx) ==
  IF DISCONNECTED(lnk[idx].next) THEN {}
  ELSE {lnk[idx].next} \cup Following(lnk, lnk[idx].next)

(* A step of kissat_decide in focused mode.                                *)
FocusedDecision == level' = level + 1 /\ ~stable

Decided == IDX(trail'[Len(trail')])

(* C11: the variable of a focused decision is the first unassigned one     *)
(* along prev from the search cursor, the cursor moves to it, and every    *)
(* variable behind it in the queue is assigned, whatever tseitindec is.    *)
C11_FocusedDecisionIsFirstUnassigned ==
  [][FocusedDecision =>
       /\ Decided = FirstUnassignedFrom(links, values, queue.search.idx)
       /\ queue'.search.idx = Decided
       /\ \A v \in Following(links', Decided) : values'[LIT(v)] # 0]_vars

(* The same with tseitindec off.                                           *)
C11_HoldsWithoutTseitin ==
  [][(FocusedDecision /\ ~options.tseitindec) =>
       /\ Decided = FirstUnassignedFrom(links, values, queue.search.idx)
       /\ queue'.search.idx = Decided
       /\ \A v \in Following(links', Decided) : values'[LIT(v)] # 0]_vars

(* x5000 is decided and the cursor rests on it, x1500 and x0 are free:     *)
(* the next decision skips x1500.                                          *)
C11_Witness ==
  /\ options.tseitindec
  /\ ~stable
  /\ 5000 \in DOMAIN links
  /\ queue.search.idx = 5000
  /\ values[LIT(5000)] # 0
  /\ values[LIT(1500)] = 0
  /\ values[LIT(0)] = 0
  /\ Propagated

(* A step of kissat_restart in focused mode.                               *)
FocusedRestart ==
  /\ ~stable
  /\ conflict.kind = "none"
  /\ statistics'.restarts = statistics.restarts + 1

StampOfLevel(lvl) == links[IDX(FrameDecision(lvl))].stamp

(* The stamp of the variable the next decision would take.                 *)
NextStamps == {links[d.res].stamp : d \in NextDecisions}

(* C14 as claimed: a focused restart backtracks to the deepest level       *)
(* whose decision has a stamp not below the stamp of the next decision     *)
(* variable (0 if there is none, or if restartreusetrail is off).          *)
C14_RestartKeepsDeepestLevelAbove ==
  [][FocusedRestart =>
       /\ level' \in 0 .. level
       /\ ~options.restartreusetrail => level' = 0
       /\ options.restartreusetrail =>
            \E next \in NextStamps :
               level' = Max({0} \cup {lvl \in 1 .. level :
                                        StampOfLevel(lvl) >= next})]_vars

(* C14 as the code has it: a focused restart keeps the longest prefix of   *)
(* levels whose decisions all have a stamp above the stamp of the next     *)
(* decision variable (level 0 if restartreusetrail is off).                *)
C14_RestartKeepsPrefixAbove ==
  [][FocusedRestart =>
       /\ level' \in 0 .. level
       /\ ~options.restartreusetrail => level' = 0
       /\ options.restartreusetrail =>
            \E next \in NextStamps :
               level' = Max({r \in 0 .. level :
                              \A lvl \in 1 .. r :
                                 StampOfLevel(lvl) > next})]_vars

(* Two levels are open, the decision of the first has a stamp below and    *)
(* the decision of the second a stamp above the next decision variable.    *)
C14_Witness ==
  /\ ~stable
  /\ options.restartreusetrail
  /\ Propagated
  /\ level = 2
  /\ Unassigned # {}
  /\ \E next \in NextStamps :
       /\ StampOfLevel(1) < next
       /\ StampOfLevel(2) > next

----------------------------------------------------------------------------
(* Properties of kissat_decide_phase and kissat_restarting.                *)

(* The first value of the sequence that is not 0.                          *)
RECURSIVE FirstNonzero(_)
FirstNonzero(seq) ==
  IF seq = <<>> THEN 0
  ELSE IF Head(seq) # 0 THEN Head(seq)
  ELSE FirstNonzero(Tail(seq))

(* The phase the switch count forces in focused mode.                      *)
SwitchParity(opts, stbl, sw) ==
  IF stbl THEN 0
  ELSE IF (sw \div 2) % 8 = 1 THEN INITIAL_PHASE(opts)
  ELSE IF (sw \div 2) % 8 = 3 THEN -INITIAL_PHASE(opts)
  ELSE 0

PhaseCall == call.fn = "kissat_decide_phase" /\ call.called

(* C12 as claimed: the phase is the first nonzero value of the switch      *)
(* parity, the target phase (read when target = 2, or target = 1 in stable *)
(* mode), the saved phase (read when phasesaving is on) and INITIAL_PHASE, *)
(* and it is -1 or +1.                                                     *)
C12_PhaseIsFirstNonzeroSource ==
  PhaseCall =>
    LET o == call.options
        consult_target ==
          o.target = 2 \/ (o.target = 1 /\ call.stable)
    IN
    /\ call.res \in {-1, 1}
    /\ call.res =
         FirstNonzero(<<SwitchParity(o, call.stable, call.switched),
                        IF consult_target THEN call.target ELSE 0,
                        IF o.phasesaving THEN call.saved ELSE 0,
                        INITIAL_PHASE(o)>>)

(* C12 as the code has it: target and saved phase are read under the       *)
(* conditions above only if forcephase is off; with forcephase on the      *)
(* phase is the switch parity or else INITIAL_PHASE.                       *)
C12_PhaseIsFirstNonzeroUnlessForced ==
  PhaseCall =>
    LET o == call.options
        consult_target ==
          /\ ~o.forcephase
          /\ o.target = 2 \/ (o.target = 1 /\ call.stable)
        consult_saved == ~o.forcephase /\ o.phasesaving
    IN
    /\ call.res \in {-1, 1}
    /\ call.res =
         FirstNonzero(<<SwitchParity(o, call.stable, call.switched),
                        IF consult_target THEN call.target ELSE 0,
                        IF consult_saved THEN call.saved ELSE 0,
                        INITIAL_PHASE(o)>>)

(* A call in focused mode with target = 1 where target and saved phase     *)
(* disagree and the saved phase decides against the initial phase.         *)
C12_Witness ==
  /\ PhaseCall
  /\ ~call.options.forcephase
  /\ ~call.stable
  /\ call.options.target = 1
  /\ call.options.phasesaving
  /\ call.options.phase
  /\ SwitchParity(call.options, call.stable, call.switched) = 0
  /\ call.target = 1
  /\ call.saved = -1
  /\ call.res = -1

RestartingCall == call.fn = "kissat_restarting" /\ call.called

(* C13: in focused mode kissat_restarting returns true exactly when the    *)
(* restart option is on, the level is above 0, the conflicts have reached  *)
(* limits.restart.conflicts and margin * slow_glue <= fast_glue with       *)
(* margin = (100 + restartmargin) / 100, quotient and product being those  *)
(* of doubles.                                                             *)
C13_RestartingIffGlueAndLimit ==
  (RestartingCall /\ ~call.stable) =>
    /\ call.res =
         (/\ call.options.restart
          /\ call.level > 0
          /\ call.conflicts >= call.limits.restart.conflicts
          /\ DLeq(DMul(DDiv(D(100 + call.options.restartmargin), Lit_100),
                       D(call.slow)),
                  D(call.fast)))
    /\ call.level = 0 => ~call.res
    /\ ~call.options.restart => ~call.res
    /\ call.conflicts < call.limits.restart.conflicts => ~call.res

(* A focused call at the limit of conflicts whose two sides of the glue    *)
(* test are equal: 1.0 * 10 = 10.                                          *)
C13_Witness ==
  /\ RestartingCall
  /\ ~call.stable
  /\ call.options.restart
  /\ call.options.restartmargin = 0
  /\ call.level > 0
  /\ call.conflicts = call.limits.restart.conflicts
  /\ call.slow = 10
  /\ call.fast = 10
  /\ call.res

(* A focused call at the limit of conflicts with restartmargin 12 and the  *)
(* averages 25 and 28: the double 1.12 * 25 lies above 28 and the result   *)
(* is false.                                                               *)
C13_WitnessRounded ==
  /\ RestartingCall
  /\ ~call.stable
  /\ call.options.restart
  /\ call.options.restartmargin = 12
  /\ call.level > 0
  /\ call.conflicts = call.limits.restart.conflicts
  /\ call.slow = 25
  /\ call.fast = 28
  /\ ~call.res

----------------------------------------------------------------------------
(* Properties of kissat_update_conflicts_and_trail.                        *)

(* A step of kissat_update_conflicts_and_trail.                            *)
UpdateStep == ~Idle /\ call'.called

(* C17: the update sets inconsistent exactly when the propagation ended    *)
(* in a conflict at level 0 and leaves it alone otherwise, it counts the   *)
(* conflict once in search propagation and not in probing, and no other    *)
(* step changes the flag or the counter; the flag is never cleared.        *)
C17_InconsistentIffRootConflict ==
  [][/\ UpdateStep =>
          /\ inconsistent' =
               (inconsistent \/ (conflict.kind # "none" /\ level = 0))
          /\ statistics'.conflicts = statistics.conflicts +
               (IF conflict.kind # "none"
                    /\ call.fn = "kissat_search_propagate"
                THEN 1 ELSE 0)
     /\ ~UpdateStep =>
          /\ inconsistent' = inconsistent
          /\ statistics'.conflicts = statistics.conflicts
     /\ inconsistent => inconsistent']_vars

(* A conflict above the root level was counted and left the flag alone.    *)
C17_Witness ==
  /\ call.fn = "kissat_search_propagate"
  /\ call.called
  /\ conflict.kind # "none"
  /\ level > 0
  /\ statistics.conflicts = 1
  /\ ~inconsistent

(* A conflict of the root level found by probing set the flag and was not  *)
(* counted.                                                                *)
C17_WitnessRoot ==
  /\ call.fn = "kissat_probing_propagate"
  /\ call.called
  /\ conflict.kind # "none"
  /\ level = 0
  /\ statistics.conflicts = 0
  /\ inconsistent

----------------------------------------------------------------------------
(* Properties of kissat_reduce.                                            *)

(* A step of kissat_reduce.                                                *)
ReduceStep == statistics'.reductions = statistics.reductions + 1

(* The last step was a kissat_reduce.                                      *)
ReduceCall == call.fn = "kissat_reduce"

(* The variables of the trail whose reason is a clause of the arena.       *)
ReasonSide ==
  {IDX(trail[i]) : i \in {j \in DOMAIN trail :
                            assigned[IDX(trail[j])].reason.kind = "clause"}}

(* C15: kissat_reduce never marks a reason clause garbage: the clause that *)
(* is the reason of a literal of the trail before the reduction is its     *)
(* reason afterwards, with the same literals, and is not garbage.          *)
C15_ReduceSparesReasons ==
  [][ReduceStep =>
       \A v \in ReasonSide :
          /\ assigned'[v].reason.kind = "clause"
          /\ assigned'[v].reason.ref \in DOMAIN clauses'
          /\ clauses'[assigned'[v].reason.ref].lits
               = clauses[assigned[v].reason.ref].lits
          /\ ~clauses'[assigned'[v].reason.ref].garbage]_vars

(* A reduction without compaction marked a reason clause that is           *)
(* redundant, unused and above the tiers, and made a clause garbage that   *)
(* is ranked behind it: the reason clause was passed over.                 *)
C15_Witness ==
  /\ ReduceCall
  /\ ~call.compact
  /\ \E ref \in call.marked, other \in DOMAIN clauses :
        /\ IsReason(ref)
        /\ clauses[ref].redundant
        /\ ~clauses[ref].garbage
        /\ clauses[ref].used = 0
        /\ clauses[ref].glue > TIER2
        /\ clauses[other].redundant
        /\ clauses[other].garbage
        /\ RankBelow(clauses[ref], clauses[other])

(* C16: no clause carries the reason mark when kissat_reduce returns,      *)
(* whichever path it took.                                                 *)
C16_ReasonMarksCleared ==
  [][ReduceStep => \A ref \in DOMAIN clauses' : ~clauses'[ref].reason]_vars

(* The four paths of kissat_reduce after a reduction that marked a reason  *)
(* clause, or that had no clause to start from.                            *)
C16_WitnessCollected ==
  /\ ReduceCall
  /\ call.marked # {}
  /\ call.reducible
  /\ ~call.compact
  /\ \A ref \in DOMAIN clauses : ~clauses[ref].reason

C16_WitnessCompacted ==
  /\ ReduceCall
  /\ call.marked # {}
  /\ ~call.reducible
  /\ call.compact
  /\ \A ref \in DOMAIN clauses : ~clauses[ref].reason

C16_Witness ==
  /\ ReduceCall
  /\ call.marked # {}
  /\ ~call.reducible
  /\ ~call.compact
  /\ \A ref \in DOMAIN clauses : ~clauses[ref].reason

C16_WitnessNothing ==
  /\ ReduceCall
  /\ call.start = INVALID_REF
  /\ \A ref \in DOMAIN clauses : ~clauses[ref].reason

(* The readings of kissat_process_time a reduction may take: start and end *)
(* of the reduction.                                                       *)
Reading(gap, d) ==
  LET start_time == DAdd(last.reduce_timing.end_time, Seconds(gap)) IN
  [start_time |-> start_time, end_time |-> DAdd(start_time, Seconds(d))]

ClockReadings == {Reading(gap, d) : gap \in {1, 2}, d \in Durations}

(* limits.reduce.conflicts after kissat_reduce under the readings r.       *)
LimitAfter(compact, r) ==
  kissat_reduce(options, ReduceState, trail, compact, r.start_time,
                r.end_time).limits.reduce.conflicts

(* C18: the core does not read clocks: wherever the search calls           *)
(* kissat_reduce, limits.reduce.conflicts afterwards is the same whatever  *)
(* the readings of the process time are, with reduceadaptive on or off.    *)
C18_ReduceLimitIgnoresClock ==
  Reducing =>
    \A compact \in BOOLEAN :
       Cardinality({LimitAfter(compact, r) : r \in ClockReadings}) = 1

(* With reduceadaptive off the limit is the same under all readings, and   *)
(* with it on under all readings of the same duration.                     *)
C18_HoldsWithoutAdaptive ==
  Reducing =>
    \A compact \in BOOLEAN :
       LET after == {[duration |-> DSub(r.end_time, r.start_time),
                      limit |-> LimitAfter(compact, r)] :
                       r \in ClockReadings}
       IN \A a1 \in after, a2 \in after :
             (~options.reduceadaptive \/ a1.duration = a2.duration)
               => a1.limit = a2.limit

(* A reduction with reduceadaptive on that took the longest time: its      *)
(* limit lies above the one of the interval reduceint * sqrt (reductions). *)
C18_Witness ==
  /\ ReduceCall
  /\ options.reduceadaptive
  /\ DLess(Seconds(1), last.reduce_timing.duration)
  /\ limits.reduce.conflicts
       > statistics.conflicts
           + TimesSqrt(options.reduceint, statistics.reductions)

----------------------------------------------------------------------------
(* Properties of adaptive_reduce_delta.                                    *)

DeltaCall == call.fn = "adaptive_reduce_delta" /\ call.called

(* C19: with reduceadaptive off the interval to the next reduction is      *)
(* reduceint * sqrt (reductions), with a fixed scale of 1.0 whatever       *)
(* last.reduce_timing.current_scale holds and for every reduceint.         *)
C19_FixedScaleWithoutAdaptive ==
  (DeltaCall /\ ~call.options.reduceadaptive) =>
    call.res = TimesSqrt(call.options.reduceint, call.statistics.reductions)

(* The interval is the claimed one when current_scale is 1.0 and the       *)
(* interval is not below 100.                                              *)
C19_HoldsAtUnitScale ==
  (/\ DeltaCall
   /\ ~call.options.reduceadaptive
   /\ call.timing.current_scale = Lit_1
   /\ TimesSqrt(call.options.reduceint, call.statistics.reductions) >= 100)
    => call.res = TimesSqrt(call.options.reduceint,
                            call.statistics.reductions)

(* reduceadaptive off, current_scale 1.5, reduceint 1000, first reduction: *)
(* the interval is 1500.                                                   *)
C19_Witness ==
  /\ DeltaCall
  /\ ~call.options.reduceadaptive
  /\ call.timing.current_scale = Lit_1_5
  /\ call.options.reduceint = 1000
  /\ call.statistics.reductions = 1
  /\ call.res = 1500

(* reduceadaptive off, current_scale 1.0, reduceint 50, first reduction:   *)
(* the interval is 100.                                                    *)
C19_WitnessSmall ==
  /\ DeltaCall
  /\ ~call.options.reduceadaptive
  /\ call.timing.current_scale = Lit_1
  /\ call.options.reduceint = 50
  /\ call.statistics.reductions = 1
  /\ call.res = 100

----------------------------------------------------------------------------
(* Properties of first_reducible.                                          *)

(* No redundant clause that is not garbage lies before the cursor.         *)
NoReducibleBefore(cls, cursor) ==
  \A ref \in DOMAIN cls :
     (cls[ref].redundant /\ ~cls[ref].garbage) => ref >= cursor

(* C20: first_reducible never moves backward: after every kissat_reduce,   *)
(* with or without compaction, its value is at least its value before,     *)
(* and no redundant clause that is not garbage lies before it.             *)
C20_FirstReducibleNeverMovesBack ==
  [][ReduceStep =>
       /\ first_reducible' >= first_reducible
       /\ NoReducibleBefore(clauses', first_reducible')]_vars

(* C20 as it holds: after a kissat_reduce without compaction the value of  *)
(* first_reducible is at least its value before; after one with            *)
(* compaction it is smaller by at most the number of clauses removed from  *)
(* the arena; in both cases no redundant clause that is not garbage lies   *)
(* before it.                                                              *)
C20_FirstReducibleFollowsCompaction ==
  [][ReduceStep =>
       /\ ~call'.compact => first_reducible' >= first_reducible
       /\ call'.compact =>
            first_reducible' >= first_reducible
                                  - (Len(clauses) - Len(clauses'))
       /\ NoReducibleBefore(clauses', first_reducible')]_vars

(* A reduction with compaction removed a garbage clause of the formula in  *)
(* front of the learned clauses: the first learned clause, allocated at    *)
(* reference 3, and the cursor with it are at reference 2.                 *)
C20_Witness ==
  /\ ReduceCall
  /\ call.compact
  /\ first_reducible = 2
  /\ clauses[2].redundant
  /\ ~clauses[2].garbage
  /\ \A ref \in DOMAIN clauses : ref < 2 => ~clauses[ref].redundant

----------------------------------------------------------------------------
(* Properties of the rewrite of a clause by one iteration of the scan.     *)

LargeVisited == VisitCalled /\ ~call.head.binary
WatchMoved == LargeVisited /\ call.after.delayed # <<>>

(* C28: replacing a watch only permutes the literals of the clause: the    *)
(* clause has the same literals as often as before and the same size, and  *)
(* after the rewrite lits[0] = other, lits[1] = r and lits[r_idx] =        *)
(* not_lit with r_idx in [2, size), whichever watch not_lit was.           *)
C28_ReplacementPermutesLiterals ==
  LargeVisited =>
    LET before == VisitedClause.lits
        lits == call.after.clauses[1].lits
    IN /\ Len(lits) = Len(before)
       /\ \A l \in Lits(Len(before)) :
            Occurrences(lits, l) = Occurrences(before, l)
       /\ WatchMoved =>
            /\ call.after.clauses[1].searched \in 2 .. Len(before) - 1
            /\ L(lits, 0) = VisitedOther
            /\ L(lits, 1) = call.after.delayed[1].lit
            /\ L(lits, 1) = L(before, call.after.clauses[1].searched)
            /\ L(lits, call.after.clauses[1].searched) = call.not_lit

(* The watch at position 1 of a clause of more than eight literals moved   *)
(* to the last literal of the clause.                                      *)
C28_Witness ==
  /\ WatchMoved
  /\ Len(VisitedClause.lits) > 8
  /\ L(VisitedClause.lits, 1) = call.not_lit
  /\ call.after.clauses[1].searched = Len(VisitedClause.lits) - 1

(* The watch at position 0 of a ternary clause moved.                      *)
C28_WitnessTernary ==
  /\ WatchMoved
  /\ Len(VisitedClause.lits) = 3
  /\ L(VisitedClause.lits, 0) = call.not_lit

----------------------------------------------------------------------------
(* Properties of the visit of a binary watch.                              *)

BinaryVisited == VisitCalled /\ call.head.binary

(* The scan state with the watch copied and nothing else changed.          *)
WatchCopied == [call.s EXCEPT !.p = @ + 1, !.q = Append(@, call.head)]

(* A literal waiting to be propagated was assigned at the current          *)
(* decision level, so the level PROPAGATE_LITERAL forces binary partners   *)
(* at (a->level) is the current one.                                       *)
PropagatedAtCurrentLevel ==
  \A i \in propagate + 1 .. Len(trail) : assigned[IDX(trail[i])].level = level

(* C24: a binary watch whose partner is true changes nothing; whose        *)
(* partner is false stops the scan with the binary conflict (not_lit,      *)
(* blocking); whose partner is unassigned forces the partner true at the   *)
(* current decision level with reason BINARY(not_lit); in all three cases  *)
(* the watch stays in the list of not_lit.                                 *)
C24_BinaryWatchOutcome ==
  BinaryVisited =>
    LET blocking == call.head.lit
        blocking_value == call.s.values[blocking]
    IN /\ call.after.q = Append(call.s.q, call.head)
       /\ call.after.delayed = <<>>
       /\ blocking_value > 0 => call.after = WatchCopied
       /\ blocking_value < 0 =>
            call.after =
              [WatchCopied EXCEPT
                 !.res = kissat_binary_conflict(call.not_lit, blocking),
                 !.brk = TRUE]
       /\ blocking_value = 0 =>
            /\ call.after.values =
                 [call.s.values EXCEPT ![blocking] = 1, ![NOT(blocking)] = -1]
            /\ call.after.assigned =
                 [call.s.assigned EXCEPT ![IDX(blocking)] =
                    [level |-> call.level,
                     reason |-> BinaryReason(call.not_lit)]]
            /\ call.after.trail = Append(call.s.trail, blocking)
            /\ call.after.res = NoConflict
            /\ ~call.after.brk
            /\ call.after.clauses = call.s.clauses

(* A binary watch whose partner was unassigned was visited.                *)
C24_Witness ==
  /\ BinaryVisited
  /\ call.s.values[call.head.lit] = 0
  /\ call.after.values[call.head.lit] = 1

(* A binary watch whose partner was false was visited.                     *)
C24_WitnessConflict ==
  /\ BinaryVisited
  /\ call.s.values[call.head.lit] < 0
  /\ call.after.res.kind = "binary"

----------------------------------------------------------------------------
(* Properties of the visit of the watch of a garbage clause.               *)

GarbageVisited == LargeVisited /\ VisitedClause.garbage

(* C25: every large watch visited whose clause is garbage is dropped from  *)
(* the list of not_lit, whatever the value of its blocking literal.        *)
C25_GarbageWatchDropped == GarbageVisited => call.after.q = call.s.q

(* C25 as the code has it: the watch of a garbage clause is dropped when   *)
(* its blocking literal is not true, and nothing else changes but the tick *)
(* of the clause inspection; when its blocking literal is true the clause  *)
(* is not inspected and the watch is kept.                                 *)
C25_GarbageWatchDroppedUnlessBlocked ==
  GarbageVisited =>
    IF call.s.values[call.head.lit] > 0
    THEN call.after = WatchCopied
    ELSE call.after = [call.s EXCEPT !.p = @ + 1, !.ticks = @ + 1]

(* The watch of a garbage clause with a false blocking literal was         *)
(* visited and dropped.                                                    *)
C25_Witness ==
  /\ GarbageVisited
  /\ call.s.values[call.head.lit] < 0
  /\ call.after.q = call.s.q

(* The watch of a garbage clause with a true blocking literal was visited  *)
(* and kept.                                                               *)
C25_WitnessBlocked ==
  /\ GarbageVisited
  /\ call.s.values[call.head.lit] > 0
  /\ call.after.q = Append(call.s.q, call.head)

----------------------------------------------------------------------------
(* Properties of the delayed-watch buffer and of the watch lists across    *)
(* scans.                                                                  *)

(* A step that is a call of PROPAGATE_LITERAL.                             *)
ScanStep == propagate' = propagate + 1

(* The clauses the scan rewrote: their watch was moved.                    *)
MovedRefs == {ref \in DOMAIN clauses : clauses'[ref].lits # clauses[ref].lits}

(* The positions of the large watches of clause ref in a watch list.       *)
LargeWatchesOf(ws, ref) == {i \in DOMAIN ws : ~ws[i].binary /\ ws[i].ref = ref}

(* A clause whose literals are no longer in the order of the formula, in   *)
(* which they ascend.                                                      *)
Rewritten(ref) ==
  \E i \in 1 .. Len(clauses[ref].lits) - 1 :
     clauses[ref].lits[i] > clauses[ref].lits[i + 1]

(* C26: when PROPAGATE_LITERAL returns, with or without a conflict, the    *)
(* delayed buffer is empty, as it was when the scan started, and every     *)
(* watch moved during the scan appears exactly once in the watch list of   *)
(* its new literal, with the other watched literal as blocking literal     *)
(* and the same clause reference.                                          *)
C26_DelayedWatchesDrained ==
  [][ScanStep =>
       /\ delayed = <<>>
       /\ delayed' = <<>>
       /\ \A ref \in MovedRefs :
            LET lits == clauses'[ref].lits
                ws == watches'[L(lits, 1)]
            IN /\ Cardinality(LargeWatchesOf(ws, ref)) = 1
               /\ \A i \in LargeWatchesOf(ws, ref) :
                    ws[i] = kissat_blocking_watch(L(lits, 0), ref)]_vars

(* A scan returned a conflict, the buffer is empty and a watch that was    *)
(* moved is the last of the list of its new literal.                       *)
C26_Witness ==
  /\ conflict.kind # "none"
  /\ delayed = <<>>
  /\ \E ref \in Refs :
       /\ Rewritten(ref)
       /\ watches[Watched1(ref)] # <<>>
       /\ watches[Watched1(ref)][Len(watches[Watched1(ref)])] =
            kissat_blocking_watch(Watched0(ref), ref)

(* Every clause that is not garbage has exactly one watch in the list of   *)
(* its first literal and exactly one in the list of its second.            *)
WatchedTwice ==
  \A ref \in Refs :
    Live(ref) =>
      /\ Cardinality(LargeWatchesOf(watches[Watched0(ref)], ref)) = 1
      /\ Cardinality(LargeWatchesOf(watches[Watched1(ref)], ref)) = 1

(* What identifies a watch in a list: the partner of a binary watch, the   *)
(* clause of a large one.                                                  *)
WatchKey(w) == IF w.binary THEN <<"binary", w.lit>> ELSE <<"large", w.ref>>
WatchKeys(ws) == [i \in DOMAIN ws |-> WatchKey(ws[i])]

(* The watches of the scanned list the scan took out.                      *)
RemovedKeys(not_lit) ==
  {WatchKey(watches[not_lit][i]) : i \in DOMAIN watches[not_lit]}
    \ {WatchKey(watches'[not_lit][i]) : i \in DOMAIN watches'[not_lit]}

(* The scan took out of the list of not_lit only watches of garbage        *)
(* clauses and watches it moved, kept the others in their order, and only  *)
(* appended to the other lists.                                            *)
ScanKeepsWatches ==
  LET not_lit == NOT(trail[propagate + 1]) IN
  /\ \A k \in RemovedKeys(not_lit) :
       /\ k[1] = "large"
       /\ clauses[k[2]].garbage \/ k[2] \in MovedRefs
  /\ WatchKeys(watches'[not_lit]) =
       SelectSeq(WatchKeys(watches[not_lit]),
                 LAMBDA k : k \notin RemovedKeys(not_lit))
  /\ \A l \in DOMAIN watches \ {not_lit} :
       /\ Len(watches'[l]) >= Len(watches[l])
       /\ SubSeq(watches'[l], 1, Len(watches[l])) = watches[l]

(* The scan stopped at a conflict: the watches behind the conflicting one  *)
(* are the same as before.                                                 *)
ConflictKeepsRest ==
  LET not_lit == NOT(trail[propagate + 1])
      old == watches[not_lit]
      new == watches'[not_lit]
      at == {i \in DOMAIN new :
               \/ conflict'.kind = "binary" /\ new[i].binary
                    /\ new[i].lit = conflict'.b
               \/ conflict'.kind = "clause" /\ ~new[i].binary
                    /\ new[i].ref = conflict'.ref}
  IN conflict'.kind # "none" =>
       \E i \in at :
          SubSeq(new, i + 1, Len(new))
            = SubSeq(old, Len(old) - (Len(new) - i) + 1, Len(old))

(* C27: after any sequence of scans, also of scans that stop at a          *)
(* conflict, every clause that is not garbage has exactly one watch in     *)
(* the list of lits[0] and exactly one in the list of lits[1]; a scan      *)
(* removes a watch only of a garbage clause or when it moves the watch to  *)
(* the replacement, and the watches not visited when a conflict is found   *)
(* stay in their order.                                                    *)
C27_WatchesSurviveScans ==
  /\ []WatchedTwice
  /\ [][ScanStep => (ScanKeepsWatches /\ ConflictKeepsRest)]_vars

(* A scan stopped at a conflict in front of a watch it did not visit, and  *)
(* some watch was moved before.                                            *)
C27_Witness ==
  /\ conflict.kind # "none"
  /\ propagate > 0
  /\ LET ws == watches[NOT(trail[propagate])] IN
     \E i \in DOMAIN ws :
        /\ i < Len(ws)
        /\ \/ conflict.kind = "binary" /\ ws[i].binary
                /\ ws[i].lit = conflict.b
           \/ conflict.kind = "clause" /\ ~ws[i].binary
                /\ ws[i].ref = conflict.ref
  /\ \E ref \in Refs : Live(ref) /\ Rewritten(ref)

----------------------------------------------------------------------------
(* Properties of the sweep of kissat_reduce.                               *)

SweepCalled == call.fn = "kissat_reduce" /\ call.called

(* The clauses the sweep made garbage, and the candidates it collected.    *)
SweepMarked ==
  {ref \in DOMAIN call.cls :
     call.after[ref].garbage /\ ~call.cls[ref].garbage}
SweepCandidates == {call.reds[i] : i \in DOMAIN call.reds}

(* The tiers that protect a clause, with the uses it had when the sweep    *)
(* started.                                                                *)
ProtectedTier(c) ==
  \/ c.glue <= TIER1 /\ c.used > 0
  \/ c.glue <= Max({TIER1, TIER2}) /\ c.used >= MAX_USED - 1

(* C29: a reduction marks a clause garbage only if the clause was          *)
(* redundant, not garbage, not a reason and not in a protected tier when   *)
(* it was collected, where the tier is decided by the uses read before     *)
(* the decrement of this reduction and tier1 is at most tier2.             *)
C29_MarkedOnlyIfCandidate ==
  SweepCalled =>
    /\ TIER1 <= Max({TIER1, TIER2})
    /\ \A ref \in SweepMarked :
         /\ call.cls[ref].redundant
         /\ ~call.cls[ref].garbage
         /\ ~call.cls[ref].reason
         /\ ~ProtectedTier(call.cls[ref])
         /\ ref \in SweepCandidates

(* A clause the second tier protected by the uses it had, which it no      *)
(* longer has after the decrement, stayed, and so did a reason clause,     *)
(* while a candidate of a better rank became garbage.                      *)
C29_Witness ==
  /\ SweepCalled
  /\ \E kept \in DOMAIN call.cls, reason \in DOMAIN call.cls :
     \E gone \in SweepMarked :
        /\ call.cls[kept].redundant
        /\ ~call.cls[kept].garbage
        /\ ~call.cls[kept].reason
        /\ kept >= call.start
        /\ call.cls[kept].used = MAX_USED - 1
        /\ call.after[kept].used = MAX_USED - 2
        /\ ~call.after[kept].garbage
        /\ reason >= call.start
        /\ call.cls[reason].redundant
        /\ call.cls[reason].reason
        /\ ~call.after[reason].garbage
        /\ RankBelow(call.cls[kept], call.cls[gone])
        /\ RankBelow(call.cls[reason], call.cls[gone])

(* C30: of the N candidates collected the reduction marks exactly the      *)
(* smaller of N and the integer part of fraction * N, and every marked     *)
(* candidate has a larger glue than every unmarked one, or the same glue   *)
(* and a size that is not smaller.                                         *)
C30_LeastUsefulMarked ==
  SweepCalled =>
    LET N == Len(call.reds)
        goal == ReduceTarget(call.opts, call.reductions, N)
    IN
    /\ SweepMarked \subseteq SweepCandidates
    /\ Cardinality(SweepMarked) = Min({N, goal})
    /\ \A c \in SweepMarked, d \in SweepCandidates \ SweepMarked :
          \/ call.cls[c].glue > call.cls[d].glue
          \/ /\ call.cls[c].glue = call.cls[d].glue
             /\ Len(call.cls[c].lits) >= Len(call.cls[d].lits)

(* Some but not all of at least three candidates became garbage, among     *)
(* them a clause of larger glue and smaller size than one that stayed.     *)
C30_Witness ==
  /\ SweepCalled
  /\ Len(call.reds) >= 3
  /\ \E c \in SweepMarked, d \in SweepCandidates \ SweepMarked :
        /\ call.cls[c].glue > call.cls[d].glue
        /\ Len(call.cls[c].lits) < Len(call.cls[d].lits)

(* Two candidates of the same rank, of which one alone became garbage.     *)
C30_WitnessTie ==
  /\ SweepCalled
  /\ \E c \in SweepMarked, d \in SweepCandidates \ SweepMarked :
        /\ call.cls[c].glue = call.cls[d].glue
        /\ Len(call.cls[c].lits) = Len(call.cls[d].lits)

----------------------------------------------------------------------------
(* Properties of the uses the sweep takes away.                            *)

(* used - 1, saturating at 0.                                              *)
OneUseLess(used) == IF used > 0 THEN used - 1 ELSE 0

(* The clauses from the cursor on that are redundant and not garbage.      *)
SweepVisited ==
  {ref \in DOMAIN call.cls :
     /\ ref >= call.start
     /\ call.cls[ref].redundant
     /\ ~call.cls[ref].garbage}

(* C31 as stated: the sweep takes one use, saturating at 0, from the       *)
(* clauses from the cursor on that are redundant, not garbage and not a    *)
(* reason, and leaves the uses of every other clause, reason clauses       *)
(* among them, as they were.                                               *)
C31_UsesOfCandidatesDecremented ==
  SweepCalled =>
    \A ref \in DOMAIN call.cls :
       call.after[ref].used =
         IF ref \in SweepVisited /\ ~call.cls[ref].reason
         THEN OneUseLess(call.cls[ref].used)
         ELSE call.cls[ref].used

(* C31, amended: the sweep takes one use, saturating at 0, from every      *)
(* clause from the cursor on that is redundant and not garbage, reason     *)
(* clauses among them, and leaves the uses of every other clause as they   *)
(* were.                                                                   *)
C31_UsesOfLiveRedundantDecremented ==
  SweepCalled =>
    \A ref \in DOMAIN call.cls :
       call.after[ref].used =
         IF ref \in SweepVisited
         THEN OneUseLess(call.cls[ref].used)
         ELSE call.cls[ref].used

(* The sweep took a use from a reason clause and from a candidate, left a  *)
(* clause without uses at 0, and left a used redundant clause in front of  *)
(* the cursor alone.                                                       *)
C31_Witness ==
  /\ SweepCalled
  /\ call.start = 2
  /\ call.cls[1].redundant /\ ~call.cls[1].garbage
  /\ call.cls[1].used > 0
  /\ call.after[1].used = call.cls[1].used
  /\ \E r \in SweepVisited, c \in SweepVisited, z \in SweepVisited :
        /\ call.cls[r].reason
        /\ call.cls[r].used > 0
        /\ call.after[r].used = call.cls[r].used - 1
        /\ ~call.cls[c].reason
        /\ call.cls[c].used > 0
        /\ call.after[c].used = call.cls[c].used - 1
        /\ call.cls[z].used = 0
        /\ call.after[z].used = 0

----------------------------------------------------------------------------
(* Properties of the overhead signal of adaptive_reduce_delta.             *)

(* The search between two reductions takes 10 microseconds, or 10          *)
(* milliseconds.                                                           *)
SearchTimes == {1, 1000}

(* Readings of kissat_process_time at the start and the end of a           *)
(* reduction that follows the last one after a search of either length.    *)
ReadingsAfterSearch ==
  {Reading(gap, d) : gap \in SearchTimes, d \in Durations}

(* last.reduce_timing.current_scale after kissat_reduce under r.           *)
ScaleAfter(compact, r) ==
  kissat_reduce(options, ReduceState, trail, compact, r.start_time,
                r.end_time).last.reduce_timing.current_scale

(* The scale of the signal duration / (search time + duration), where the  *)
(* search time runs from the end of the last reduction to the start of     *)
(* this one.                                                               *)
ScaleOfSearchTime(r) ==
  LET timing == [last.reduce_timing EXCEPT
                   !.start_time = r.start_time,
                   !.end_time = last.reduce_timing.end_time,
                   !.duration = DSub(r.end_time, r.start_time)]
  IN IF /\ DLess(DZero, DSub(r.end_time, r.start_time))
        /\ statistics.conflicts - last.reduce_timing.start_conflicts > 100
     THEN AdaptedScale(options, timing)
     ELSE last.reduce_timing.current_scale

(* The scale lies in [0.7, 1.5].                                           *)
ScaleInRange(scale) == DLeq(Lit_0_7, scale) /\ DLeq(scale, Lit_1_5)

(* C32: with reduceadaptive on the signal of a reduction is its duration   *)
(* over the search time since the end of the last reduction plus that      *)
(* duration, and the scale stays within [0.7, 1.5] after any sequence of   *)
(* reductions.                                                             *)
C32_OverheadOverSearchTime ==
  /\ ScaleInRange(last.reduce_timing.current_scale)
  /\ (Reducing /\ options.reduceadaptive) =>
       \A compact \in BOOLEAN : \A r \in ReadingsAfterSearch :
          ScaleAfter(compact, r) = ScaleOfSearchTime(r)

(* The scale stays within [0.7, 1.5], and the signal is the claimed one    *)
(* when the search took less than a millisecond, which the signal counts   *)
(* as one millisecond.                                                     *)
C32_HoldsAfterShortSearch ==
  /\ ScaleInRange(last.reduce_timing.current_scale)
  /\ (Reducing /\ options.reduceadaptive) =>
       \A compact \in BOOLEAN : \A r \in ReadingsAfterSearch :
          /\ ScaleInRange(ScaleAfter(compact, r))
          /\ DLess(DSub(r.start_time, last.reduce_timing.end_time),
                   Lit_0_001)
               => ScaleAfter(compact, r) = ScaleOfSearchTime(r)

(* The search calls the second reduction with reduceadaptive on, after a   *)
(* first one that moved the scale.                                         *)
C32_Witness ==
  /\ Reducing
  /\ options.reduceadaptive
  /\ statistics.reductions > 0
  /\ last.reduce_timing.current_scale # Lit_1
  /\ \E r \in ReadingsAfterSearch :
        ScaleAfter(FALSE, r) # ScaleOfSearchTime(r)

----------------------------------------------------------------------------
(* Properties of the reduce limit.                                         *)

(* The state kissat_reduce leaves under reduceint, compact and the         *)
(* readings r.                                                             *)
ReducedWith(reduceint, compact, r) ==
  kissat_reduce([options EXCEPT !.reduceint = reduceint], ReduceState,
                trail, compact, r.start_time, r.end_time)

(* kissat_reducing is false in st and stays false for 99 conflicts more.   *)
NotReducingFor99(st) ==
  \A further \in {0, 1, 99} :
     ~kissat_reducing(options,
                      [st.statistics EXCEPT !.conflicts = @ + further],
                      st.limits, st.clauses)

(* Wherever the search calls kissat_reduce, for every reduceint and the    *)
(* short and the long duration, the call counts one reduction and leaves a *)
(* limit of at least CONFLICTS + 100.                                      *)
ReduceSetsLimit ==
  Reducing =>
    \A reduceint \in ReduceIntervals, compact \in BOOLEAN :
    \A r \in {Reading(1, d) : d \in Durations} :
       \E st \in {ReducedWith(reduceint, compact, r)} :
          /\ st.statistics.reductions = statistics.reductions + 1
          /\ st.statistics.conflicts = statistics.conflicts
          /\ st.limits.reduce.conflicts >= statistics.conflicts + 100
          /\ NotReducingFor99(st)

(* kissat_reducing is false without the option and without a redundant     *)
(* clause, and below the limit.                                            *)
ReducingNeedsOptionAndClause ==
  /\ ~kissat_reducing([options EXCEPT !.reduce = FALSE], statistics, limits,
                      clauses)
  /\ (\A ref \in DOMAIN clauses : ~clauses[ref].redundant)
       => ~kissat_reducing(options, statistics, limits, clauses)
  /\ statistics.conflicts < limits.reduce.conflicts
       => ~kissat_reducing(options, statistics, limits, clauses)

(* C33: every call of kissat_reduce, also one that finds nothing to        *)
(* reduce, counts one reduction and sets limits.reduce.conflicts to at     *)
(* least CONFLICTS + 100, so that kissat_reducing is false until 100       *)
(* conflicts more have occurred; kissat_reducing is false as well when     *)
(* the option reduce is off or no clause is redundant.                     *)
C33_ReduceLimitAtLeastHundredAhead ==
  /\ [](ReduceSetsLimit /\ ReducingNeedsOptionAndClause)
  /\ [][ReduceStep =>
          /\ statistics'.reductions = statistics.reductions + 1
          /\ limits'.reduce.conflicts >= statistics'.conflicts + 100
          /\ ~kissat_reducing(options', statistics', limits', clauses')]_vars

(* A reduction that found nothing to reduce left redundant clauses and a   *)
(* limit of at least 100 conflicts ahead.                                  *)
C33_Witness ==
  /\ ReduceCall
  /\ ~call.reducible
  /\ \E ref \in DOMAIN clauses :
        clauses[ref].redundant /\ ~clauses[ref].garbage
  /\ statistics.conflicts = last.conflicts.reduce
  /\ limits.reduce.conflicts >= statistics.conflicts + 100
  /\ ~kissat_reducing(options, statistics, limits, clauses)

(* The search calls a reduction whose interval the floor of 100 decides.   *)
C33_WitnessFloor ==
  /\ Reducing
  /\ \E compact \in BOOLEAN, r \in ClockReadings :
        ReducedWith(2, compact, r).limits.reduce.conflicts
          = statistics.conflicts + 100

----------------------------------------------------------------------------
(* Properties of fill_decision_cache.                                      *)

(* The search fills the cache: a decision in stable mode that the cache    *)
(* cannot serve.                                                           *)
CacheMiss ==
  /\ Propagated
  /\ stable
  /\ Unassigned # {}
  /\ get_from_decision_cache(values, active, CacheState).res = INVALID_IDX

(* The cache fill_decision_cache leaves and the variables it holds.        *)
Filled == fill_decision_cache(values, scores, CacheState)
FilledEntries(h) == {h.cache[i] : i \in 1 .. h.size}

(* The unassigned variables of the heap.                                   *)
UnassignedInHeap == {v \in heap : values[LIT(v)] = 0}

(* S holds variables of U such that no variable of U outside S has a       *)
(* larger score than one inside.                                           *)
HighestScoring(S, U) ==
  /\ S \subseteq U
  /\ \A v \in S : \A u \in U \ S : scores[v] >= scores[u]

(* C34: after fill_decision_cache the cache holds as many variables as     *)
(* the smaller of DECISION_CACHE_SIZE and the number of unassigned         *)
(* variables of the heap; they are pairwise distinct, unassigned, and the  *)
(* highest-scoring unassigned ones.                                        *)
C34_CacheHoldsTopUnassigned ==
  CacheMiss =>
    \E h \in {Filled} :
       /\ h.size = Min({DECISION_CACHE_SIZE, Cardinality(UnassignedInHeap)})
       /\ Cardinality(FilledEntries(h)) = h.size
       /\ HighestScoring(FilledEntries(h), UnassignedInHeap)

(* What holds of the cache after the fill: its entries, if any, are the    *)
(* unassigned variable of largest score in the heap, and no entry is       *)
(* assigned.                                                               *)
C34_HoldsForTheMaximum ==
  CacheMiss =>
    \E h \in {Filled} :
       /\ h.size <= DECISION_CACHE_SIZE
       /\ HighestScoring(FilledEntries(h), UnassignedInHeap)
       /\ Cardinality(FilledEntries(h)) <= 1

(* A decision filled the cache with the same variable twice while two      *)
(* other variables of the heap were unassigned.                            *)
C34_Witness ==
  /\ stable
  /\ decision_cache_valid
  /\ decision_cache_size = DECISION_CACHE_SIZE
  /\ decision_cache[1] = decision_cache[2]
  /\ level > 0
  /\ IDX(trail[Len(trail)]) = decision_cache[1]
  /\ Cardinality(UnassignedInHeap) >= 2

----------------------------------------------------------------------------
(* Properties of find_tseitin_preferred_variable.                          *)

TseitinCalled == call.fn = "find_tseitin_preferred_variable" /\ call.called

(* The variables the first pass visits: at most 1000 along prev from the   *)
(* cursor, the cursor included.                                            *)
WithinFirstPass(cursor) ==
  {v \in 0 .. MaxQueue - 1 : cursor - 1000 < v /\ v <= cursor}

(* C35: with tseitindec on and an active variable unassigned,              *)
(* find_tseitin_preferred_variable returns a variable that is unassigned   *)
(* and connected in the queue, in every state of the queue: also when no   *)
(* unassigned variable is within 1000 steps along prev of the cursor, and  *)
(* when the only unassigned variables come behind the cursor.              *)
C35_TseitinReturnsUnassigned ==
  TseitinCalled =>
    /\ call.res \in call.free
    /\ call.res \in DOMAIN LongLinks
    /\ ~DISCONNECTED(call.res)
    /\ call.after.search.idx = call.res

(* The cursor is at the end of the queue and the only unassigned           *)
(* variables are more than 1000 steps in front of it: the scan of all      *)
(* variables finds the first of them.                                      *)
C35_Witness ==
  /\ TseitinCalled
  /\ call.queue.search.idx = MaxQueue - 1
  /\ call.free \cap WithinFirstPass(MaxQueue - 1) = {}
  /\ Cardinality(call.free) >= 2
  /\ call.res = Min(call.free)

(* The only unassigned variables come behind the cursor: the scan forward  *)
(* finds the nearest.                                                      *)
C35_WitnessBehind ==
  /\ TseitinCalled
  /\ \A v \in call.free : v > call.queue.search.idx
  /\ Cardinality(call.free) >= 2
  /\ call.res = Min(call.free)

(* The first pass passes over a variable of Tseitin level 1 for one of     *)
(* level 0 further along prev.                                             *)
C35_WitnessLevel ==
  /\ TseitinCalled
  /\ call.queue.search.idx = MaxQueue - 1
  /\ 1001 \in call.free
  /\ call.res = 1000

----------------------------------------------------------------------------
(* Properties of the forced phase.                                         *)

ForcedCall == PhaseCall /\ call.options.forcephase

(* C36 as stated: with forcephase on kissat_decide_phase returns the sign  *)
(* of INITIAL_PHASE, in stable and in focused mode and for every value of  *)
(* the switch count, whatever the target and saved phases are.             *)
C36_ForcedPhaseIsInitial ==
  ForcedCall => call.res = INITIAL_PHASE(call.options)

(* C36, amended: with forcephase on kissat_decide_phase returns the sign   *)
(* of INITIAL_PHASE, except in focused mode when (switched >> 1) & 7 is 3, *)
(* where it returns the opposite sign; the target and saved phases are     *)
(* not read.                                                               *)
C36_ForcedPhaseIsInitialOrFlipped ==
  ForcedCall =>
    call.res =
      IF ~call.stable /\ (call.switched \div 2) % 8 = 3
      THEN -INITIAL_PHASE(call.options)
      ELSE INITIAL_PHASE(call.options)

(* A forced call in stable mode returned the initial phase against the     *)
(* target and the saved phase, which the options would have it read.       *)
C36_Witness ==
  /\ ForcedCall
  /\ call.stable
  /\ call.options.target = 2
  /\ call.options.phasesaving
  /\ call.options.phase
  /\ call.target = -1
  /\ call.saved = -1
  /\ call.res = 1

(* A forced call in focused mode in a round that flips the phase.          *)
C36_WitnessFlipped ==
  /\ ForcedCall
  /\ ~call.stable
  /\ call.switched = 6
  /\ call.options.phase
  /\ call.target = 1
  /\ call.saved = 1
  /\ call.res = -1


(***************************************************************************)
(* The restart limit after a focused restart.                              *)
(***************************************************************************)
IntervalRun == call.fn = "kissat_restart"

FocusedRestartStep ==
  /\ IntervalRun
  /\ ~call.stable
  /\ call'.statistics.restarts = call.statistics.restarts + 1

(* kissat_restarting on the counters and averages of c.                    *)
RestartingNow(c) ==
  \E reluctant \in BOOLEAN :
     kissat_restarting(c.options, c.level, c.statistics.conflicts,
                       c.limits, c.stable, reluctant, D(c.fast), D(c.slow))

LimitAhead(c) == c.limits.restart.conflicts - c.statistics.conflicts

(* C37: after every focused-mode kissat_restart the restart limit is       *)
(* strictly greater than the number of conflicts, by at least 5 when       *)
(* restartadaptive is on; kissat_restarting is false as long as no         *)
(* further conflict has occurred, and a focused restart never follows a    *)
(* focused restart without a conflict in between.                          *)
C37_FocusedRestartsNeedConflict ==
  /\ [](IntervalRun /\ ~call.stable
        /\ call.restarted = call.statistics.conflicts
        => ~RestartingNow(call))
  /\ [][FocusedRestartStep =>
          /\ LimitAhead(call') > 0
          /\ call.options.restartadaptive => LimitAhead(call') >= 5
          /\ call.restarted < call.statistics.conflicts]_vars

(* Two focused restarts, with one conflict in between and the level kept   *)
(* by the first.                                                           *)
C37_Witness ==
  /\ IntervalRun
  /\ ~call.stable
  /\ ~call.options.restartadaptive
  /\ call.statistics.restarts = call.before + 2
  /\ call.restarted = call.start + 1
  /\ LimitAhead(call) = 1

(* Two focused restarts with restartadaptive on, five conflicts apart.     *)
C37_WitnessAdaptive ==
  /\ IntervalRun
  /\ ~call.stable
  /\ call.options.restartadaptive
  /\ call.statistics.restarts = call.before + 2
  /\ call.restarted = call.start + 5
  /\ LimitAhead(call) = 5


(***************************************************************************)
(* The vivification factor and the clamp of the adaptive interval.         *)
(***************************************************************************)
(* A focused restart with restartadaptive on has set the limit and left    *)
(* the factors of its message.                                             *)
AdaptiveRestarted ==
  /\ IntervalRun
  /\ ~call.stable
  /\ call.options.restartadaptive
  /\ call.restarted = call.statistics.conflicts

Vivifying(c) ==
  c.statistics.vivified > 10000 /\ c.statistics.conflicts > 100000

(* The vivification rate per 1000 conflicts, the double vivified /         *)
(* (CONFLICTS / 1000.0), is above n.                                       *)
RateAbove(c, n) ==
  DLess(D(n), DDiv(D(c.statistics.vivified),
                   DDiv(D(c.statistics.conflicts), Lit_1000)))

(* The product of the three factors of the last focused restart.           *)
FactorProduct == DMul(DMul(call.glue, call.vivify), call.decision)

ClampedFactor ==
  /\ DLeq(Lit_0_5, call.combined)
  /\ DLeq(call.combined, Lit_3)
  /\ call.combined = IF DLess(Lit_3, FactorProduct) THEN Lit_3
                     ELSE FactorProduct

(* C38: given vivified > 10000 and CONFLICTS > 100000 the vivification     *)
(* factor is 1.8 when the rate of vivified clauses per 1000 conflicts      *)
(* exceeds 10, 1.4 when it is above 5 and at most 10, and 1.0 otherwise;   *)
(* the combined factor is clamped to [0.5, 3.0].                           *)
C38_VivifyFactorByRate ==
  AdaptiveRestarted =>
    /\ Vivifying(call) =>
         call.vivify = IF RateAbove(call, 10) THEN Lit_1_8
                       ELSE IF RateAbove(call, 5) THEN Lit_1_4
                       ELSE Lit_1
    /\ ClampedFactor

(* What holds: the factor is 1.4 whenever the rate is above 5, also above  *)
(* 10, and 1.0 otherwise, and the combined factor is clamped.              *)
C38_HoldsWithoutHighestFactor ==
  AdaptiveRestarted =>
    /\ call.vivify = IF Vivifying(call) /\ RateAbove(call, 5)
                     THEN Lit_1_4
                     ELSE Lit_1
    /\ ClampedFactor

(* A focused restart at a rate above 10 whose combined factor is cut to    *)
(* 3.0.                                                                    *)
C38_Witness ==
  /\ AdaptiveRestarted
  /\ Vivifying(call)
  /\ RateAbove(call, 10)
  /\ DLess(Lit_3, FactorProduct)
  /\ call.combined = Lit_3
  /\ LimitAhead(call) = 3 * 1024


(***************************************************************************)
(* The ticks of one per-literal scan.                                      *)
(***************************************************************************)
(* The scan state at the start of PROPAGATE_LITERAL, without ticks.        *)
ScanFrom ==
  [p |-> 1, q |-> <<>>, values |-> values, assigned |-> assigned,
   trail |-> trail, clauses |-> clauses, delayed |-> delayed, ticks |-> 0,
   res |-> NoConflict, brk |-> FALSE]

(* The iterations of the while loop counted one by one: visited is the     *)
(* number of watches read, inspected the number of large watches among     *)
(* them whose blocking literal was not true when they were read, so that   *)
(* the clause was looked at.                                               *)
RECURSIVE CountVisits(_, _, _, _, _, _, _)
CountVisits(env, blevel, lvl, not_lit, ws, s, n) ==
  IF s.p > Len(ws) \/ s.brk THEN [n EXCEPT !.values = s.values]
  ELSE CountVisits(env, blevel, lvl, not_lit, ws,
                   VisitWatch(env, blevel, lvl, not_lit, ws[s.p], s),
                   [n EXCEPT
                      !.visited = @ + 1,
                      !.inspected =
                         IF ~ws[s.p].binary /\ s.values[ws[s.p].lit] <= 0
                         THEN @ + 1 ELSE @])

(* The tally of the scan a ScanStep makes, for the padding its search      *)
(* read.                                                                   *)
ScanTally ==
  LET lit == trail[propagate + 1]
      pads == {pad \in Pads(simd) :
                 PROPAGATE_LITERAL([path |-> simd, base |-> 0, pad |-> pad, ignore |-> NULL_CLAUSE],
                                   watches, lit).values = values'}
      pad == CHOOSE pad \in pads : TRUE
  IN CountVisits([path |-> simd, base |-> 0, pad |-> pad, ignore |-> NULL_CLAUSE],
                 assigned[IDX(lit)].level, level, NOT(lit),
                 watches[NOT(lit)], ScanFrom,
                 [visited |-> 0, inspected |-> 0, values |-> values])

(* C39: one per-literal scan increases the ticks by exactly the number of  *)
(* watches visited plus the number of clause bodies inspected.             *)
C39_TicksAreVisitsAndInspections ==
  [][ScanStep =>
       ticks' = ScanTally.visited + ScanTally.inspected]_vars

(* C39 as the code has it: one per-literal scan increases the ticks by 1   *)
(* plus the cache lines of the watch list, plus 1 for every clause body    *)
(* inspected, every literal assigned and every watch moved to a            *)
(* replacement; a watch that is only visited costs nothing.                *)
C39_TicksAreLinesInspectionsAssignmentsMoves ==
  [][ScanStep =>
       /\ ScanTally.values = values'
       /\ ticks' = 1
                   + kissat_cache_lines(
                       SIZE_WATCHES(watches[NOT(trail[propagate + 1])]))
                   + ScanTally.inspected
                   + (Len(trail') - Len(trail))
                   + Cardinality(MovedRefs)]_vars

(* A scan that inspected clauses, assigned a literal and moved a watch.    *)
C39_Witness ==
  /\ propagate > 0
  /\ ticks >= 5
  /\ Len(trail) > propagate
  /\ \E ref \in Refs : Rewritten(ref)

----------------------------------------------------------------------------
(* Properties of random decision sequences.                                *)

(* Every decision, random or not, takes an active variable.                *)
DecisionsAreActive ==
  \A i \in DOMAIN trail : IDX(trail[i]) \in active

(* A random sequence starts with the length randeclength * log10 of the    *)
(* number of sequences plus 9, and moves the conflict limit.               *)
RandomSequenceStarts ==
  [][statistics'.random_sequences # statistics.random_sequences =>
       /\ statistics'.random_sequences = statistics.random_sequences + 1
       /\ randec = 0
       /\ level' <= 1
       /\ randec' = options.randeclength
       /\ limits'.randec.conflicts = statistics.conflicts + options.randecint
       /\ stable => options.randecstable]_vars

(* A decision that does not follow the queue: a random one.                *)
RandomDecisionTaken ==
  /\ ~stable
  /\ level = 1
  /\ statistics.random_sequences = 1
  /\ IDX(trail[Len(trail)]) # 4

====
